---- MODULE Spec2Model ----
(***************************************************************************)
(* celerix-store: the in-memory engine (MemStore), its background          *)
(* persistence (Persistence.SavePersona / LoadAll) and process restarts.   *)
(*                                                                         *)
(* A Go map is modelled as a record [st, m]: st says whether the map is    *)
(* "absent" (no entry in the enclosing map), "nil" (an entry holding a     *)
(* nil map, as json.Unmarshal of `null` leaves it) or "map" (an allocated  *)
(* map); m holds its entries, NoVal marking a missing key.  The engine     *)
(* never replaces or removes an allocated inner map, so a map object is    *)
(* identified by its path (persona, app).                                  *)
(***************************************************************************)
EXTENDS Integers, Sequences, FiniteSets, Bags, TLC

\* ------------------------------------------------------------------ bounds
\* Engine calls made on a store without persister, and on a store with one.
MaxCalls == 4
MaxWrites == 3
MaxCrashes == 1
\* Calls made by each of the goroutines that call the engine concurrently.
MaxGoOps == 2
\* Lines a peer writes to its connection.
MaxLines == 3
\* Connections open at once.
MaxConns == 102
\* `semaphore := make(chan struct{}, 100)`
MaxHandlers == 100

Personas == {"p1", "p2"}
Apps == {"a1", "a2"}
Keys == {"k1", "k2"}
\* Go values handed to Set: a string and an int.
SetVals == {"v1", "int:7"}
\* What a cell may hold: json.Unmarshal decodes every number as float64.
GoVals == SetVals \cup {"float64:7"}
NoVal == "<none>"

Nil == "<nil>"
ErrPersonaNotFound == "persona not found"
ErrAppNotFound == "app not found"
ErrKeyNotFound == "key not found"

\* The apps and keys used by the callers of the store that has a persister.
PApps == {"a1"}
PKeys == {"k1"}

Cells == Personas \X Apps \X Keys

\* The goroutines that call the engine concurrently, and the IDs they use.
Goroutines == {"g1", "g2"}
GApps == {"a1"}
GKeys == {"k1"}

VARIABLES
  data,       \* MemStore.data
  persister,  \* MemStore.persister # nil
  tasks,      \* bag of background goroutines that have not yet entered SavePersona
  saving,     \* the goroutine inside SavePersona (holder of Persistence.mu)
  dir,        \* the data directory: file name -> content
  up,         \* the process is running
  lastCall,   \* the last engine call made by the caller and what it returned
  expect,     \* per cell: the value of the latest Set with no Set/Delete/Move on the cell since
  ncalls,     \* engine calls made so far
  ncrash,     \* crashes so far
  ret,        \* the collection the caller holds from its last GetAppStore or DumpApp
  mu,         \* MemStore.mu: the goroutine holding the write lock, those holding read locks
  gor,        \* per goroutine calling the engine concurrently: its call, position and locals
  hist,       \* what the concurrent calls have committed and written so far
  srv,        \* the daemon: shutdown phase, handlers at and past the gate, one connection
  cli,        \* the SDK client: its connection, the call in progress, its results
  vlt         \* a use of the vault: plaintext, keys, nonce, ciphertext, result of Decrypt

vars == <<data, persister, tasks, saving, dir, up, lastCall, expect, ncalls, ncrash, ret,
          mu, gor, hist, srv, cli, vlt>>

\* ------------------------------------------------------------- Go maps
EmptyKeys == [k \in Keys |-> NoVal]
AbsentApp == [st |-> "absent", m |-> EmptyKeys]
MakeApp == [st |-> "map", m |-> EmptyKeys]
NoApps == [a \in Apps |-> AbsentApp]
AbsentPersona == [st |-> "absent", m |-> NoApps]
NilPersona == [st |-> "nil", m |-> NoApps]
MakePersona == [st |-> "map", m |-> NoApps]
EmptyData == [p \in Personas |-> AbsentPersona]

\* `x, ok := m[k]`: ok
Has(c) == c.st # "absent"
\* `m[k] == nil`
IsNil(c) == c.st \in {"absent", "nil"}

\* NewMemStore: a nil initialData becomes an empty map, anything else is kept.
NewMemStore(initialData) == initialData

\* ------------------------------------------------------------- MemStore reads
Result(v, e) == [val |-> v, err |-> e]

\* A Get that reports a missing app as a missing key.
Get_KeyErrForMissingApp(d, personaID, appID, key) ==
  IF ~Has(d[personaID]) THEN Result(NoVal, ErrPersonaNotFound)
  ELSE IF ~Has(d[personaID].m[appID]) THEN Result(NoVal, ErrKeyNotFound)
  ELSE IF d[personaID].m[appID].m[key] = NoVal THEN Result(NoVal, ErrKeyNotFound)
  ELSE Result(d[personaID].m[appID].m[key], Nil)

Get(d, personaID, appID, key) ==
  IF ~Has(d[personaID]) THEN Result(NoVal, ErrPersonaNotFound)
  ELSE IF ~Has(d[personaID].m[appID]) THEN Result(NoVal, ErrAppNotFound)
  ELSE IF d[personaID].m[appID].m[key] = NoVal THEN Result(NoVal, ErrKeyNotFound)
  ELSE Result(d[personaID].m[appID].m[key], Nil)

\* A GetPersonas that leaves out the personas whose map is nil.
GetPersonas_NonNil(d) == {p \in Personas : d[p].st = "map"}

\* The IDs in the returned slice; its order is the map's iteration order.
GetPersonas(d) == {p \in Personas : Has(d[p])}

GetApps(d, personaID) ==
  IF Has(d[personaID]) THEN {a \in Apps : Has(d[personaID].m[a])} ELSE {}

\* A map handed to the caller: alias says that it is the store's own map object
\* at (persona, app) and not a map of its own with entries m.
AbsentRet == [st |-> "absent", alias |-> FALSE, m |-> EmptyKeys]
NilRet == [st |-> "nil", alias |-> FALSE, m |-> EmptyKeys]
CopyOf(appData) == [st |-> "map", alias |-> FALSE, m |-> appData.m]
TheMap(appData) == [st |-> "map", alias |-> TRUE, m |-> EmptyKeys]
\* The entries of a map handed to the caller, for app appID of personaID in store d.
Entries(d, personaID, appID, rm) ==
  IF rm.alias THEN d[personaID].m[appID].m ELSE rm.m

\* A GetAppStore that returns the app's map itself.
GetAppStore_NoCopy(d, personaID, appID) ==
  IF Has(d[personaID]) /\ Has(d[personaID].m[appID])
  THEN [m |-> TheMap(d[personaID].m[appID]), err |-> Nil]
  ELSE [m |-> NilRet, err |-> ErrAppNotFound]

\* A GetAppStore that tells a missing persona from a missing app.
GetAppStore_PersonaErr(d, personaID, appID) ==
  IF ~Has(d[personaID]) THEN [m |-> NilRet, err |-> ErrPersonaNotFound]
  ELSE IF Has(d[personaID].m[appID])
  THEN [m |-> CopyOf(d[personaID].m[appID]), err |-> Nil]
  ELSE [m |-> NilRet, err |-> ErrAppNotFound]

GetAppStore(d, personaID, appID) ==
  IF Has(d[personaID]) /\ Has(d[personaID].m[appID])
  THEN [m |-> CopyOf(d[personaID].m[appID]), err |-> Nil]
  ELSE [m |-> NilRet, err |-> ErrAppNotFound]

\* A DumpApp with an entry, empty if need be, for every persona of the store.
DumpApp_EveryPersona(d, appID) ==
  [p \in Personas |->
     IF Has(d[p]) /\ Has(d[p].m[appID]) THEN CopyOf(d[p].m[appID])
     ELSE IF Has(d[p]) THEN CopyOf(AbsentApp)
     ELSE AbsentRet]

\* The result map is always new; its entries are copies of the apps' maps.
DumpApp(d, appID) ==
  [p \in Personas |->
     IF Has(d[p]) /\ Has(d[p].m[appID])
     THEN CopyOf(d[p].m[appID])
     ELSE AbsentRet]

\* A scan that stops at the first persona that has the app.
GetGlobalHits_AppOnly(d, appID, key) ==
  {p \in Personas : Has(d[p]) /\ Has(d[p].m[appID])}

\* The personas GetGlobal's scan can stop at; which one depends on iteration order.
GetGlobalHits(d, appID, key) ==
  {p \in Personas : Has(d[p]) /\ Has(d[p].m[appID]) /\ d[p].m[appID].m[key] # NoVal}

\* GetGlobal when the scan stops at pick, one of the hits, or finds none.
GetGlobal(d, appID, key, pick) ==
  IF GetGlobalHits(d, appID, key) = {}
  THEN [val |-> NoVal, who |-> "-", err |-> ErrKeyNotFound]
  ELSE [val |-> d[pick].m[appID].m[key], who |-> pick, err |-> Nil]

\* ------------------------------------------------------------- MemStore writes
\* A copy one level deep: a fresh outer map whose entries are the store's own
\* app maps.
copyPersonaData_Shallow(d, personaID) ==
  IF ~Has(d[personaID]) THEN NilPersona
  ELSE [st |-> "map",
        m |-> [a \in Apps |->
                 IF Has(d[personaID].m[a])
                 THEN [st |-> "shared", m |-> EmptyKeys]
                 ELSE AbsentApp]]

\* copyPersonaData: nil for a persona without entry, else fresh maps two levels deep.
copyPersonaData(d, personaID) ==
  IF ~Has(d[personaID]) THEN NilPersona
  ELSE [st |-> "map",
        m |-> [a \in Apps |->
                 IF Has(d[personaID].m[a])
                 THEN [st |-> "map", m |-> d[personaID].m[a].m]
                 ELSE AbsentApp]]

\* What the holder of a snapshot of personaID reads from it when the store is
\* in state d: the snapshot's own maps, and through an entry that is the
\* store's own app map, what the store holds now.
ReadSnapshot(snap, d, personaID) ==
  IF snap.st = "nil" THEN snap
  ELSE [st |-> "map",
        m |-> [a \in Apps |->
                 IF snap.m[a].st = "shared"
                 THEN [st |-> "map", m |-> d[personaID].m[a].m]
                 ELSE snap.m[a]]]

\* A Set that tests for a missing entry with the comma-ok form, and so takes
\* a nil map for one that is there.
Vivify_AbsentOnly(d, personaID, appID) ==
  LET d1 == IF ~Has(d[personaID]) THEN [d EXCEPT ![personaID] = MakePersona] ELSE d
  IN IF ~Has(d1[personaID].m[appID]) /\ ~IsNil(d1[personaID])
     THEN [d1 EXCEPT ![personaID].m[appID] = MakeApp]
     ELSE d1

\* `if m.data[p] == nil { m.data[p] = make(...) }; if m.data[p][a] == nil { ... }`
Vivify(d, personaID, appID) ==
  LET d1 == IF IsNil(d[personaID]) THEN [d EXCEPT ![personaID] = MakePersona] ELSE d
  IN IF IsNil(d1[personaID].m[appID])
     THEN [d1 EXCEPT ![personaID].m[appID] = MakeApp]
     ELSE d1

\* A Set that allocates the app's map on every call.
SetData_FreshApp(d, personaID, appID, key, val) ==
  LET d1 == IF IsNil(d[personaID]) THEN [d EXCEPT ![personaID] = MakePersona] ELSE d
  IN [d1 EXCEPT ![personaID].m[appID] = [MakeApp EXCEPT !.m[key] = val]]

\* Set's critical section up to the copy.
SetData(d, personaID, appID, key, val) ==
  [Vivify(d, personaID, appID) EXCEPT ![personaID].m[appID].m[key] = val]

\* A Delete that drops the app's map once its last key is gone.
DeleteData_Prune(d, personaID, appID, key) ==
  IF Has(d[personaID]) /\ Has(d[personaID].m[appID])
  THEN IF \A k \in Keys \ {key} : d[personaID].m[appID].m[k] = NoVal
       THEN [d EXCEPT ![personaID].m[appID] = AbsentApp]
       ELSE [d EXCEPT ![personaID].m[appID].m[key] = NoVal]
  ELSE d

\* Delete's critical section up to the copy.
DeleteData(d, personaID, appID, key) ==
  IF Has(d[personaID]) /\ Has(d[personaID].m[appID])
  THEN [d EXCEPT ![personaID].m[appID].m[key] = NoVal]
  ELSE d

\* A strict Delete, which reports a key it did not find.
DeleteErr_Strict(d, personaID, appID, key) ==
  IF Has(d[personaID]) /\ Has(d[personaID].m[appID])
     /\ d[personaID].m[appID].m[key] # NoVal
  THEN Nil
  ELSE ErrKeyNotFound

\* Delete's only return: `return nil`.
DeleteErr(d, personaID, appID, key) == Nil

\* Move's source validation, in the code's order.
MoveErr(d, srcPersona, appID, key) ==
  IF ~Has(d[srcPersona]) THEN ErrPersonaNotFound
  ELSE IF ~Has(d[srcPersona].m[appID]) THEN ErrAppNotFound
  ELSE IF d[srcPersona].m[appID].m[key] = NoVal THEN ErrKeyNotFound
  ELSE Nil

\* A Move that installs at the destination and leaves the source as it was.
MoveData_KeepSource(d, srcPersona, dstPersona, appID, key) ==
  [Vivify(d, dstPersona, appID) EXCEPT
     ![dstPersona].m[appID].m[key] = d[srcPersona].m[appID].m[key]]

\* A Move that leaves a value the destination already holds in place.
MoveData_KeepDst(d, srcPersona, dstPersona, appID, key) ==
  LET val == d[srcPersona].m[appID].m[key]
      d1 == [d EXCEPT ![srcPersona].m[appID].m[key] = NoVal]
      d2 == Vivify(d1, dstPersona, appID)
  IN IF d2[dstPersona].m[appID].m[key] # NoVal THEN d2
     ELSE [d2 EXCEPT ![dstPersona].m[appID].m[key] = val]

\* Move's "2. Perform Move": delete from the source, vivify the destination, install.
MoveData(d, srcPersona, dstPersona, appID, key) ==
  LET val == d[srcPersona].m[appID].m[key]
      d1 == [d EXCEPT ![srcPersona].m[appID].m[key] = NoVal]
  IN [Vivify(d1, dstPersona, appID) EXCEPT ![dstPersona].m[appID].m[key] = val]

\* A Move that prepares the destination before it validates the source.
MoveStore_VivifyFirst(d, srcPersona, dstPersona, appID, key) ==
  IF MoveErr(d, srcPersona, appID, key) # Nil
  THEN Vivify(d, dstPersona, appID)
  ELSE MoveData(d, srcPersona, dstPersona, appID, key)

\* Move's critical section up to the copies: the early returns change nothing.
MoveStore(d, srcPersona, dstPersona, appID, key) ==
  IF MoveErr(d, srcPersona, appID, key) # Nil
  THEN d
  ELSE MoveData(d, srcPersona, dstPersona, appID, key)

\* ------------------------------------------------------------- JSON
\* A Go string with two spaces in a row, and the same with one.
TwoSpaces == "a  b"
OneSpace == "a b"
\* json.Marshal of a leaf value.
MarshalValue(v) ==
  CASE v = "v1" -> "\"v1\""
    [] v = TwoSpaces -> "\"a  b\""
    [] v = OneSpace -> "\"a b\""
    [] v = "int:7" -> "7"
    [] v = "float64:7" -> "7"
    [] OTHER -> NoVal

\* json.Unmarshal of a leaf into `any`.
UnmarshalValue(j) ==
  CASE j = "\"v1\"" -> "v1"
    [] j = "\"a  b\"" -> TwoSpaces
    [] j = "\"a b\"" -> OneSpace
    [] j = "7" -> "float64:7"
    [] OTHER -> NoVal

\* json.MarshalIndent of a persona snapshot: `null` for a nil map, else an object.
Marshal(snap) ==
  IF snap.st = "nil" THEN [st |-> "null", m |-> NoApps]
  ELSE [st |-> "object",
        m |-> [a \in Apps |->
                 IF Has(snap.m[a])
                 THEN [st |-> "map", m |-> [k \in Keys |-> MarshalValue(snap.m[a].m[k])]]
                 ELSE AbsentApp]]

\* json.Unmarshal into a nil map[string]map[string]any: `null` leaves it nil.
Unmarshal(doc) ==
  IF doc.st = "null" THEN NilPersona
  ELSE [st |-> "map",
        m |-> [a \in Apps |->
                 IF Has(doc.m[a])
                 THEN [st |-> "map", m |-> [k \in Keys |-> UnmarshalValue(doc.m[a].m[k])]]
                 ELSE AbsentApp]]

\* A Go value encoding/json has no encoding for (a func, a channel).
Unsupported == "func"
\* json.MarshalIndent returns no error: no value of the snapshot is unsupported.
Marshalable(snap) ==
  \A a \in Apps, k \in Keys : snap.m[a].m[k] # Unsupported

\* ------------------------------------------------------------- files
NullDoc == [st |-> "null", m |-> NoApps]
NoFile == [kind |-> "none", doc |-> NullDoc]
\* A file opened with O_TRUNC whose bytes are not all written yet.
PartialFile == [kind |-> "partial", doc |-> NullDoc]
JSONFile(doc) == [kind |-> "json", doc |-> doc]

\* A file name is <<stem, suffix>>.
FileNames == Personas \X {".json", ".json.tmp"}
filePath(personaID) == <<personaID, ".json">>
\* A SavePersona that writes the file in place.
tempPath_InPlace(personaID) == <<personaID, ".json">>
\* `tempPath := filePath + ".tmp"`
tempPath(personaID) == <<personaID, ".json.tmp">>
\* filepath.Ext: the suffix from the last dot.
Ext(name) == IF name[2] = ".json" THEN ".json" ELSE ".tmp"

\* os.Rename: atomic; renaming a file onto itself does nothing.
Rename(fs, old, new) ==
  IF old = new THEN fs ELSE [fs EXCEPT ![new] = fs[old], ![old] = NoFile]

\* A file os.ReadFile fails on.
Unreadable == [kind |-> "unreadable", doc |-> NullDoc]

\* A LoadAll that gives up, with nothing loaded, at a file it cannot read or decode.
LoadAll_StopAtBad(fs) ==
  [p \in Personas |->
     IF \A q \in Personas : fs[filePath(q)].kind \in {"none", "json"}
     THEN IF fs[filePath(p)].kind = "json" THEN Unmarshal(fs[filePath(p)].doc) ELSE AbsentPersona
     ELSE AbsentPersona]

\* LoadAll: every entry with extension .json that reads and decodes, keyed by its stem.
LoadAll(fs) ==
  [p \in Personas |->
     IF \E name \in FileNames :
          /\ fs[name].kind # "none"
          /\ Ext(name) = ".json"
          /\ name[1] = p
          /\ fs[name].kind = "json"
     THEN Unmarshal(fs[CHOOSE name \in FileNames :
                          fs[name].kind = "json" /\ Ext(name) = ".json" /\ name[1] = p].doc)
     ELSE AbsentPersona]

\* ------------------------------------------------------------- state
NoCall == [op |-> "none", persona |-> "-", dst |-> "-", app |-> "-", key |-> "-",
           val |-> NoVal, err |-> Nil, res |-> NoVal, again |-> FALSE]
Idle == [pc |-> "idle", persona |-> "-", snap |-> NilPersona]
NoExpect == [c \in Cells |-> NoVal]
NoRet == [kind |-> "none", app |-> "-", maps |-> [p \in Personas |-> AbsentRet], list |-> {},
          who |-> "-"]

Call(op, p, dst, a, k, v, e, r) ==
  LET c == [op |-> op, persona |-> p, dst |-> dst, app |-> a, key |-> k,
            val |-> v, err |-> e, res |-> r, again |-> FALSE]
  IN [c EXCEPT !.again = (c = [lastCall EXCEPT !.again = FALSE])]

\* `if m.persister != nil { m.wg.Add(1); go ... SavePersona(pID, data) }`
Dispatch(q, personaID, snap) ==
  IF persister THEN q (+) SetToBag({[persona |-> personaID, snap |-> snap]}) ELSE q

\* A counter that is raised inside the save goroutine, when it starts to run.
wg_AddInGoroutine == IF saving.pc = "idle" THEN 0 ELSE 1

\* The WaitGroup's counter: wg.Add before `go`, the deferred wg.Done when
\* SavePersona has returned.
wg == BagCardinality(tasks) + (IF saving.pc = "idle" THEN 0 ELSE 1)

\* sync.RWMutex, zero value.
Unlocked == [w |-> "-", r |-> {}]
NoMaps == [p \in Personas |-> AbsentRet]
IdleG == [pc |-> "idle", op |-> "none", persona |-> "-", dst |-> "-", app |-> "-",
          key |-> "-", val |-> NoVal, err |-> Nil, maps |-> NoMaps, who |-> "-",
          todo |-> {}, cands |-> {}, own |-> NoExpect, nops |-> 0]
\* personas and apps are the IDs the store was built with or that a Set or a
\* successful Move has named as its target; persisted tells that the last Move
\* began with no save outstanding and its key on disk under the source, and
\* replaced is what the last Move found under its destination.
NoHist(d) == [committed |-> d,
              written |-> [c \in Cells |-> {}],
              writers |-> [c \in Cells |-> {}],
              persisted |-> FALSE, replaced |-> NoVal,
              personas |-> {p \in Personas : d[p].st # "absent"},
              apps |-> {pa \in Personas \X Apps :
                          d[pa[1]].st = "map" /\ d[pa[1]].m[pa[2]].st # "absent"}]
Naming(h, p, a) == [h EXCEPT !.personas = @ \cup {p}, !.apps = @ \cup {<<p, a>>}]

\* A connection: not dialled, accepted and waiting at the gate, inside
\* handleConnection, or closed; the lines sent and not yet read, the lines read,
\* the replies written.
NoConn == [st |-> "none", inq |-> <<>>, log |-> <<>>, out |-> <<>>, sent |-> 0]
\* The daemon before Listen has accepted anything.
\* admitted records that the last step at the gate let a handler in.
\* orphans are the lines written on connections the client has left, not yet
\* read by the handlers of those connections, each with the number of the call
\* that wrote it.
NoServer == [phase |-> "run", waiting |-> 0, running |-> 0, slots |-> 0, admitted |-> FALSE,
             conn |-> NoConn, orphans |-> EmptyBag]

\* A list handed to the caller, as the set of its elements: none.
NoList == {}
\* What a store operation returns to its caller, embedded or remote.
NoResult == [val |-> NoVal, err |-> Nil, list |-> NoList, maps |-> NoMaps, who |-> "-"]
Failed(e) == [NoResult EXCEPT !.err = e]
\* One call: the operation and its arguments.
NoArgs == [op |-> "none", persona |-> "-", dst |-> "-", app |-> "-", key |-> "-", val |-> NoVal]
Args(op, p, d, a, k, v) ==
  [op |-> op, persona |-> p, dst |-> d, app |-> a, key |-> k, val |-> v]
\* A Client: where it is in sendAndReceive (idle: outside), the call, the loop
\* counter i, c.conn (nil or open), the times the command was written, the
\* replies read from the connection, the last error, the result returned, and
\* for comparison the result and the state of an embedded MemStore given the
\* same calls; n counts the calls.
\* The goroutines that share one Client; each is outside a method, blocked on
\* c.mu.Lock(), or inside sendAndReceive about to write or to read.
Callers == {"u1", "u2"}
NoCaller == [pc |-> "out", call |-> NoArgs, res |-> NoResult, n |-> 0]
\* prev is the call before the present one and the error it returned; start is
\* the daemon's store when the present call began, execs the times the daemon
\* has executed a command line written by the present call; closed tells how a
\* Close of the client went (no: none yet) and cut that it came while a call
\* was between its write and its read;
\* owner is the goroutine that holds c.mu, wrote names the goroutine that wrote
\* each line sent on the connection, callers holds the sharing goroutines.
NoClient == [pc |-> "idle", call |-> NoArgs, i |-> 0, conn |-> "nil", writes |-> 0,
             seen |-> 0, last |-> Nil, res |-> NoResult, emb |-> NoResult,
             shadow |-> NewMemStore(EmptyData), n |-> 0,
             start |-> NewMemStore(EmptyData), execs |-> 0, closed |-> "no", cut |-> FALSE,
             prev |-> [call |-> NoArgs, err |-> Nil],
             owner |-> "-", wrote |-> <<>>, callers |-> [u \in Callers |-> NoCaller]]

\* No use of the vault.
NoVault == [pc |-> "none"]

\* Everything but the store and the directory.
InitMost ==
  /\ tasks = EmptyBag
  /\ saving = Idle
  /\ up = TRUE
  /\ lastCall = NoCall
  /\ expect = NoExpect
  /\ ncalls = 0
  /\ ncrash = 0
  /\ ret = NoRet
  /\ mu = Unlocked
  /\ gor = [g \in Goroutines |-> IdleG]
  /\ hist = NoHist(data)
  /\ srv = NoServer
  /\ cli = NoClient
  /\ vlt = NoVault

InitRest ==
  /\ dir = [name \in FileNames |-> NoFile]
  /\ InitMost

InitStore ==
  /\ data = NewMemStore(EmptyData)
  /\ InitRest

\* NewMemStore(LoadAll(dataDir), persister) on an empty data directory.
Init ==
  /\ persister = TRUE
  /\ InitStore

CanCall == up /\ ncalls < (IF persister THEN MaxWrites ELSE MaxCalls)

DoGet(p, a, k) ==
  /\ CanCall
  /\ lastCall' = Call("Get", p, "-", a, k, NoVal, Get(data, p, a, k).err, Get(data, p, a, k).val)
  /\ ncalls' = ncalls + 1
  /\ UNCHANGED <<data, persister, tasks, saving, dir, up, expect, ncrash, ret, mu, gor, hist, srv, cli, vlt>>

Set(p, a, k, v) ==
  /\ CanCall
  /\ data' = SetData(data, p, a, k, v)
  /\ tasks' = Dispatch(tasks, p, copyPersonaData(data', p))
  /\ lastCall' = Call("Set", p, "-", a, k, v, Nil, NoVal)
  /\ expect' = [expect EXCEPT ![<<p, a, k>>] = v]
  /\ ncalls' = ncalls + 1
  /\ hist' = Naming(hist, p, a)
  /\ UNCHANGED <<persister, saving, dir, up, ncrash, ret, mu, gor, srv, cli, vlt>>

Delete(p, a, k) ==
  /\ CanCall
  /\ data' = DeleteData(data, p, a, k)
  /\ tasks' = Dispatch(tasks, p, copyPersonaData(data', p))
  /\ lastCall' = Call("Delete", p, "-", a, k, NoVal, DeleteErr(data, p, a, k), NoVal)
  /\ expect' = [expect EXCEPT ![<<p, a, k>>] = NoVal]
  /\ ncalls' = ncalls + 1
  /\ UNCHANGED <<persister, saving, dir, up, ncrash, ret, mu, gor, hist, srv, cli, vlt>>

Move(s, d, a, k) ==
  /\ CanCall
  /\ data' = MoveStore(data, s, d, a, k)
  /\ tasks' = IF MoveErr(data, s, a, k) # Nil
              THEN tasks
              ELSE Dispatch(Dispatch(tasks, s, copyPersonaData(data', s)),
                            d, copyPersonaData(data', d))
  /\ lastCall' = Call("Move", s, d, a, k, NoVal, MoveErr(data, s, a, k), NoVal)
  /\ expect' = [expect EXCEPT ![<<s, a, k>>] = NoVal, ![<<d, a, k>>] = NoVal]
  /\ ncalls' = ncalls + 1
  /\ hist' = [(IF MoveErr(data, s, a, k) = Nil THEN Naming(hist, d, a) ELSE hist)
                EXCEPT !.replaced = Get(data, d, a, k).val,
                       !.persisted = /\ wg = 0
                                     /\ Get(LoadAll(dir), s, a, k).err = Nil
                                     /\ MarshalValue(Get(LoadAll(dir), s, a, k).val)
                                          = MarshalValue(Get(data, s, a, k).val)]
  /\ UNCHANGED <<persister, saving, dir, up, ncrash, ret, mu, gor, srv, cli, vlt>>

\* Wait returns: m.wg.Wait() blocks until the counter is zero.
Wait ==
  /\ up /\ persister
  /\ wg = 0
  /\ lastCall' = Call("Wait", "-", "-", "-", "-", NoVal, Nil, NoVal)
  /\ UNCHANGED <<data, persister, tasks, saving, dir, up, expect, ncalls, ncrash, ret, mu, gor, hist, srv, cli, vlt>>

\* SavePersona, first part: take Persistence.mu, marshal, and open the temporary file.
SaveBegin(t) ==
  /\ up /\ saving.pc = "idle" /\ BagIn(t, tasks)
  /\ Marshalable(ReadSnapshot(t.snap, data, t.persona))
  /\ saving' = [pc |-> "write", persona |-> t.persona,
                snap |-> ReadSnapshot(t.snap, data, t.persona)]
  /\ tasks' = tasks (-) SetToBag({t})
  /\ dir' = [dir EXCEPT ![tempPath(t.persona)] = PartialFile]
  /\ UNCHANGED <<data, persister, up, lastCall, expect, ncalls, ncrash, ret, mu, gor, hist, srv, cli, vlt>>

\* os.WriteFile finishes writing the bytes.
SaveWrite ==
  /\ up /\ saving.pc = "write"
  /\ dir' = [dir EXCEPT ![tempPath(saving.persona)] = JSONFile(Marshal(saving.snap))]
  /\ saving' = [saving EXCEPT !.pc = "rename"]
  /\ UNCHANGED <<data, persister, tasks, up, lastCall, expect, ncalls, ncrash, ret, mu, gor, hist, srv, cli, vlt>>

\* os.Rename, then the deferred Unlock and wg.Done.
SaveRename ==
  /\ up /\ saving.pc = "rename"
  /\ dir' = Rename(dir, tempPath(saving.persona), filePath(saving.persona))
  /\ saving' = Idle
  /\ UNCHANGED <<data, persister, tasks, up, lastCall, expect, ncalls, ncrash, ret, mu, gor, hist, srv, cli, vlt>>

\* A store that forgets the persona whose save failed.
AfterSaveError_Rollback(d, personaID) == [d EXCEPT ![personaID] = AbsentPersona]

\* The save goroutine discards what SavePersona returns: the store stays as it is.
AfterSaveError(d, personaID) == d

\* SavePersona returns json.MarshalIndent's error: no file is touched.
SaveMarshalFail(t) ==
  /\ up /\ saving.pc = "idle" /\ BagIn(t, tasks)
  /\ ~Marshalable(ReadSnapshot(t.snap, data, t.persona))
  /\ tasks' = tasks (-) SetToBag({t})
  /\ data' = AfterSaveError(data, t.persona)
  /\ UNCHANGED <<persister, saving, dir, up, lastCall, expect, ncalls, ncrash, ret, mu, gor, hist, srv, cli, vlt>>

\* SavePersona returns os.WriteFile's error: the temporary file stays as far as
\* it was written.
SaveWriteFail ==
  /\ up /\ saving.pc = "write"
  /\ saving' = Idle
  /\ data' = AfterSaveError(data, saving.persona)
  /\ UNCHANGED <<persister, tasks, dir, up, lastCall, expect, ncalls, ncrash, ret, mu, gor, hist, srv, cli, vlt>>

\* SavePersona returns os.Rename's error: both files stay.
SaveRenameFail ==
  /\ up /\ saving.pc = "rename"
  /\ saving' = Idle
  /\ data' = AfterSaveError(data, saving.persona)
  /\ UNCHANGED <<persister, tasks, dir, up, lastCall, expect, ncalls, ncrash, ret, mu, gor, hist, srv, cli, vlt>>

\* The process dies: memory and goroutines are gone, the directory stays.
Crash ==
  /\ up /\ ncrash < MaxCrashes
  /\ up' = FALSE
  /\ data' = EmptyData
  /\ tasks' = EmptyBag
  /\ saving' = Idle
  /\ lastCall' = NoCall
  /\ expect' = NoExpect
  /\ ncrash' = ncrash + 1
  /\ ret' = NoRet
  /\ UNCHANGED <<persister, dir, ncalls, mu, gor, hist, srv, cli, vlt>>

\* main / sdk.New: NewPersistence, LoadAll, NewMemStore.
Boot ==
  /\ ~up
  /\ data' = NewMemStore(LoadAll(dir))
  /\ up' = TRUE
  /\ UNCHANGED <<persister, tasks, saving, dir, lastCall, expect, ncalls, ncrash, ret, mu, gor, hist, srv, cli, vlt>>

Next ==
  \/ \E p \in Personas, a \in PApps, k \in PKeys, v \in SetVals : Set(p, a, k, v)
  \/ \E p \in Personas, a \in PApps, k \in PKeys : Delete(p, a, k)
  \/ \E s \in Personas, d \in Personas, a \in PApps, k \in PKeys : Move(s, d, a, k)
  \/ \E t \in BagToSet(tasks) : SaveBegin(t)
  \/ SaveWrite
  \/ SaveRename
  \/ Wait
  \/ Crash
  \/ Boot

Spec == Init /\ [][Next]_vars

\* The store with a persister whose saves can fail, and values json cannot encode.
NextFail ==
  \/ \E p \in Personas, a \in PApps, k \in PKeys : DoGet(p, a, k)
  \/ \E p \in Personas, a \in PApps, k \in PKeys, v \in {"v1", Unsupported} : Set(p, a, k, v)
  \/ \E p \in Personas, a \in PApps, k \in PKeys : Delete(p, a, k)
  \/ \E s \in Personas, d \in Personas, a \in PApps, k \in PKeys : Move(s, d, a, k)
  \/ \E t \in BagToSet(tasks) : SaveBegin(t)
  \/ SaveWrite
  \/ SaveRename
  \/ \E t \in BagToSet(tasks) : SaveMarshalFail(t)
  \/ SaveWriteFail
  \/ SaveRenameFail
  \/ Wait

SpecFail == Init /\ [][NextFail]_vars

\* ------------------------------------------------------------- damaged files
\* Something other than the store leaves <persona>.json cut short or unreadable.
Corrupt(p, bad) ==
  /\ dir[filePath(p)] # bad
  /\ dir' = [dir EXCEPT ![filePath(p)] = bad]
  /\ UNCHANGED <<data, persister, tasks, saving, up, lastCall, expect, ncalls, ncrash, ret, mu, gor, hist, srv, cli, vlt>>

\* The store with a persister on a directory whose files can be damaged.
NextLoad ==
  \/ \E p \in Personas, v \in SetVals : Set(p, "a1", "k1", v)
  \/ \E p \in Personas : Delete(p, "a1", "k1")
  \/ \E t \in BagToSet(tasks) : SaveBegin(t)
  \/ SaveWrite
  \/ SaveRename
  \/ \E p \in Personas, bad \in {PartialFile, Unreadable} : Corrupt(p, bad)
  \/ Crash
  \/ Boot

SpecLoad == Init /\ [][NextLoad]_vars

\* ------------------------------------------------------------- engine alone
\* NewMemStore(nil, nil): no persister, nothing is saved.
InitEngine ==
  /\ persister = FALSE
  /\ InitStore

NextEngine ==
  \/ \E p \in Personas, a \in Apps, k \in Keys : DoGet(p, a, k)
  \/ \E p \in Personas, a \in Apps, k \in Keys, v \in SetVals : Set(p, a, k, v)
  \/ \E p \in Personas, a \in Apps, k \in Keys : Delete(p, a, k)
  \/ \E s \in Personas, d \in Personas, a \in Apps, k \in Keys : Move(s, d, a, k)

SpecEngine == InitEngine /\ [][NextEngine]_vars

\* ------------------------------------------------------------- returned collections
DoGetAppStore(p, a) ==
  /\ CanCall
  /\ lastCall' = Call("GetAppStore", p, "-", a, "-", NoVal, GetAppStore(data, p, a).err, NoVal)
  /\ ret' = [kind |-> "appstore", app |-> a, list |-> {}, who |-> "-",
             maps |-> [q \in Personas |-> IF q = p THEN GetAppStore(data, p, a).m ELSE AbsentRet]]
  /\ ncalls' = ncalls + 1
  /\ UNCHANGED <<data, persister, tasks, saving, dir, up, expect, ncrash, mu, gor, hist, srv, cli, vlt>>

DoDumpApp(a) ==
  /\ CanCall
  /\ lastCall' = Call("DumpApp", "-", "-", a, "-", NoVal, Nil, NoVal)
  /\ ret' = [kind |-> "dump", app |-> a, maps |-> DumpApp(data, a), list |-> {}, who |-> "-"]
  /\ ncalls' = ncalls + 1
  /\ UNCHANGED <<data, persister, tasks, saving, dir, up, expect, ncrash, mu, gor, hist, srv, cli, vlt>>

\* The caller sets (or, with v = NoVal, deletes) key k in the map it holds for
\* persona p: `m[k] = v`, `delete(m, k)`.  The write lands in the map object that
\* the caller holds.
MutateInner(p, k, v) ==
  /\ CanCall
  /\ ret.maps[p].st = "map"
  /\ IF ret.maps[p].alias
     THEN /\ data' = [data EXCEPT ![p].m[ret.app].m[k] = v]
          /\ ret' = ret
     ELSE /\ ret' = [ret EXCEPT !.maps[p].m[k] = v]
          /\ data' = data
  /\ lastCall' = Call("mutate", p, "-", ret.app, k, v, Nil, NoVal)
  /\ ncalls' = ncalls + 1
  /\ UNCHANGED <<persister, tasks, saving, dir, up, expect, ncrash, mu, gor, hist, srv, cli, vlt>>

\* The caller adds or replaces (with a map of its own), or removes, the entry of
\* persona p in the map DumpApp returned.
MutateOuter(p, remove) ==
  /\ CanCall
  /\ ret.kind = "dump"
  /\ ret' = [ret EXCEPT !.maps[p] = IF remove THEN AbsentRet ELSE CopyOf(MakeApp)]
  /\ lastCall' = Call("mutate", p, "-", ret.app, "-", NoVal, Nil, NoVal)
  /\ ncalls' = ncalls + 1
  /\ UNCHANGED <<data, persister, tasks, saving, dir, up, expect, ncrash, mu, gor, hist, srv, cli, vlt>>

NextIso ==
  \/ \E p \in Personas, a \in Apps, k \in Keys, v \in SetVals : Set(p, a, k, v)
  \/ \E p \in Personas, a \in Apps, k \in Keys : Delete(p, a, k)
  \/ \E p \in Personas, a \in Apps : DoGetAppStore(p, a)
  \/ \E a \in Apps : DoDumpApp(a)
  \/ \E p \in Personas, k \in Keys, v \in SetVals \cup {NoVal} : MutateInner(p, k, v)
  \/ \E p \in Personas, remove \in BOOLEAN : MutateOuter(p, remove)

SpecIso == InitEngine /\ [][NextIso]_vars

\* ------------------------------------------------------------- concurrent callers
\* A Get that takes no lock.
LockMode_GetUnlocked(op) ==
  IF op \in {"Set", "Move"} THEN "write" ELSE IF op = "Get" THEN "none" ELSE "read"

\* A Move that takes no lock.
LockMode_MoveUnlocked(op) ==
  IF op = "Set" THEN "write" ELSE IF op = "Move" THEN "none" ELSE "read"

\* The first statement of each method: m.mu.Lock() in Set and Move, m.mu.RLock()
\* in Get, GetAppStore, DumpApp and GetGlobal.
LockMode(op) == IF op \in {"Set", "Move"} THEN "write" ELSE "read"

\* Lock waits for the writer and the readers to leave, RLock for the writer.
Lock(g, op) ==
  IF LockMode(op) = "write"
  THEN mu.w = "-" /\ mu.r = {} /\ mu' = [mu EXCEPT !.w = g]
  ELSE IF LockMode(op) = "read"
  THEN mu.w = "-" /\ mu' = [mu EXCEPT !.r = @ \cup {g}]
  ELSE mu' = mu

Unlock(g) == mu' = [w |-> IF mu.w = g THEN "-" ELSE mu.w, r |-> mu.r \ {g}]

\* The program points between a writer's Lock and its Unlock.
WritePCs == {"Set.write", "Set.unlock", "Move.check", "Move.delete", "Move.install",
             "Move.unlock"}
\* Another goroutine is writing the maps while g reads them: a data race.
Racy(g) == \E h \in Goroutines \ {g} : gor[h].pc \in WritePCs
\* What a map read can give: under a data race, also something no call stored.
Torn == "<torn>"
TornRet == [st |-> "torn", alias |-> FALSE, m |-> EmptyKeys]
Reads(g, x, torn) == IF Racy(g) THEN {x, torn} ELSE {x}

CanGo(g) == gor[g].pc = "idle" /\ gor[g].nops < MaxGoOps

\* The goroutine's frame when it enters a method.
Begin(g, op, pc, p, d, a, k, v) ==
  [gor[g] EXCEPT !.pc = pc, !.op = op, !.persona = p, !.dst = d, !.app = a, !.key = k,
                 !.val = v, !.err = Nil, !.maps = NoMaps, !.who = "-",
                 !.todo = IF op \in {"DumpApp", "GetGlobal"} THEN Personas ELSE {},
                 !.cands = {hist.committed}, !.nops = @ + 1]

GCell(r) == <<r.persona, r.app, r.key>>

\* A writer leaves its critical section: the store it leaves is one every read
\* in progress may report.
Commit(g, frame) ==
  /\ gor' = [h \in Goroutines |->
               IF h = g THEN frame
               ELSE IF gor[h].pc # "idle" /\ gor[h].pc \notin WritePCs
               THEN [gor[h] EXCEPT !.cands = @ \cup {data}]
               ELSE gor[h]]
  /\ hist' = [hist EXCEPT !.committed = data]

restVars == <<persister, tasks, saving, dir, up, lastCall, expect, ncalls, ncrash, ret,
              srv, cli, vlt>>

GoSet(g, p, a, k, v) ==
  /\ CanGo(g)
  /\ Lock(g, "Set")
  /\ gor' = [gor EXCEPT ![g] = Begin(g, "Set", "Set.write", p, "-", a, k, v)]
  /\ hist' = [hist EXCEPT !.writers[<<p, a, k>>] = @ \cup {g}]
  /\ UNCHANGED <<data, restVars>>

SetWrite(g) ==
  /\ gor[g].pc = "Set.write"
  /\ data' = SetData(data, gor[g].persona, gor[g].app, gor[g].key, gor[g].val)
  /\ hist' = [hist EXCEPT !.written[GCell(gor[g])] = @ \cup {gor[g].val}]
  /\ gor' = [gor EXCEPT ![g].pc = "Set.unlock"]
  /\ UNCHANGED <<mu, restVars>>

SetUnlock(g) ==
  /\ gor[g].pc = "Set.unlock"
  /\ Unlock(g)
  /\ Commit(g, [gor[g] EXCEPT !.pc = "idle", !.own[GCell(gor[g])] = gor[g].val])
  /\ UNCHANGED <<data, restVars>>

GoGet(g, p, a, k) ==
  /\ CanGo(g)
  /\ Lock(g, "Get")
  /\ gor' = [gor EXCEPT ![g] = Begin(g, "Get", "Get.read", p, "-", a, k, NoVal)]
  /\ UNCHANGED <<data, hist, restVars>>

GetRead(g) ==
  /\ gor[g].pc = "Get.read"
  /\ \E r \in Reads(g, Get(data, gor[g].persona, gor[g].app, gor[g].key), Result(Torn, Nil)) :
       gor' = [gor EXCEPT ![g].pc = "idle", ![g].val = r.val, ![g].err = r.err]
  /\ Unlock(g)
  /\ UNCHANGED <<data, hist, restVars>>

GoGetAppStore(g, p, a) ==
  /\ CanGo(g)
  /\ Lock(g, "GetAppStore")
  /\ gor' = [gor EXCEPT ![g] = Begin(g, "GetAppStore", "AppStore.read", p, "-", a, "-", NoVal)]
  /\ UNCHANGED <<data, hist, restVars>>

AppStoreRead(g) ==
  /\ gor[g].pc = "AppStore.read"
  /\ \E r \in Reads(g, GetAppStore(data, gor[g].persona, gor[g].app),
                    [m |-> TornRet, err |-> Nil]) :
       gor' = [gor EXCEPT ![g].pc = "idle", ![g].maps[gor[g].persona] = r.m,
                          ![g].err = r.err]
  /\ Unlock(g)
  /\ UNCHANGED <<data, hist, restVars>>

GoDumpApp(g, a) ==
  /\ CanGo(g)
  /\ Lock(g, "DumpApp")
  /\ gor' = [gor EXCEPT ![g] = Begin(g, "DumpApp", "Dump.scan", "-", "-", a, "-", NoVal)]
  /\ UNCHANGED <<data, hist, restVars>>

\* One iteration of `for personaID, apps := range m.data`, in any order.
DumpScan(g, p) ==
  /\ gor[g].pc = "Dump.scan"
  /\ p \in gor[g].todo
  /\ \E r \in Reads(g, DumpApp(data, gor[g].app)[p], TornRet) :
       gor' = [gor EXCEPT ![g].maps[p] = r, ![g].todo = @ \ {p}]
  /\ UNCHANGED <<data, mu, hist, restVars>>

DumpReturn(g) ==
  /\ gor[g].pc = "Dump.scan"
  /\ gor[g].todo = {}
  /\ gor' = [gor EXCEPT ![g].pc = "idle"]
  /\ Unlock(g)
  /\ UNCHANGED <<data, hist, restVars>>

GoGetGlobal(g, a, k) ==
  /\ CanGo(g)
  /\ Lock(g, "GetGlobal")
  /\ gor' = [gor EXCEPT ![g] = Begin(g, "GetGlobal", "Global.scan", "-", "-", a, k, NoVal)]
  /\ UNCHANGED <<data, hist, restVars>>

\* One iteration of GetGlobal's loop: it returns at the first persona holding the key.
GlobalScan(g, p) ==
  /\ gor[g].pc = "Global.scan"
  /\ p \in gor[g].todo
  /\ \E r \in Reads(g, Get(data, p, gor[g].app, gor[g].key), Result(Torn, Nil)) :
       IF r.err = Nil
       THEN /\ gor' = [gor EXCEPT ![g].pc = "idle", ![g].val = r.val, ![g].who = p,
                                  ![g].todo = {}]
            /\ Unlock(g)
       ELSE /\ gor' = [gor EXCEPT ![g].todo = @ \ {p}]
            /\ mu' = mu
  /\ UNCHANGED <<data, hist, restVars>>

\* The loop ended without a hit: `return nil, "", ErrKeyNotFound`.
GlobalMiss(g) ==
  /\ gor[g].pc = "Global.scan"
  /\ gor[g].todo = {}
  /\ gor' = [gor EXCEPT ![g].pc = "idle", ![g].err = ErrKeyNotFound]
  /\ Unlock(g)
  /\ UNCHANGED <<data, hist, restVars>>

GoMove(g, s, d, a, k) ==
  /\ CanGo(g)
  /\ Lock(g, "Move")
  /\ gor' = [gor EXCEPT ![g] = Begin(g, "Move", "Move.check", s, d, a, k, NoVal)]
  /\ UNCHANGED <<data, hist, restVars>>

\* "1. Check if source exists": unlock and return the error, or keep val.
MoveCheck(g) ==
  /\ gor[g].pc = "Move.check"
  /\ LET e == MoveErr(data, gor[g].persona, gor[g].app, gor[g].key)
     IN IF e # Nil
        THEN /\ Unlock(g)
             /\ Commit(g, [gor[g] EXCEPT !.pc = "idle", !.err = e])
        ELSE /\ gor' = [gor EXCEPT ![g].pc = "Move.delete",
                          ![g].val = data[gor[g].persona].m[gor[g].app].m[gor[g].key]]
             /\ UNCHANGED <<mu, hist>>
  /\ UNCHANGED <<data, restVars>>

\* delete(srcA, key)
MoveDelete(g) ==
  /\ gor[g].pc = "Move.delete"
  /\ data' = [data EXCEPT ![gor[g].persona].m[gor[g].app].m[gor[g].key] = NoVal]
  /\ gor' = [gor EXCEPT ![g].pc = "Move.install"]
  /\ UNCHANGED <<mu, hist, restVars>>

\* m.data[dstPersona][appID][key] = val, after the two nil checks.
MoveInstall(g) ==
  /\ gor[g].pc = "Move.install"
  /\ data' = [Vivify(data, gor[g].dst, gor[g].app) EXCEPT
                ![gor[g].dst].m[gor[g].app].m[gor[g].key] = gor[g].val]
  /\ gor' = [gor EXCEPT ![g].pc = "Move.unlock"]
  /\ UNCHANGED <<mu, hist, restVars>>

MoveUnlock(g) ==
  /\ gor[g].pc = "Move.unlock"
  /\ Unlock(g)
  /\ Commit(g, [gor[g] EXCEPT !.pc = "idle"])
  /\ UNCHANGED <<data, restVars>>

\* Goroutines calling Set and Get on a store without persister.
NextSetGet ==
  \/ \E g \in Goroutines, p \in Personas, a \in GApps, k \in GKeys, v \in SetVals :
       GoSet(g, p, a, k, v)
  \/ \E g \in Goroutines : SetWrite(g)
  \/ \E g \in Goroutines : SetUnlock(g)
  \/ \E g \in Goroutines, p \in Personas, a \in GApps, k \in GKeys : GoGet(g, p, a, k)
  \/ \E g \in Goroutines : GetRead(g)

SpecSetGet == InitEngine /\ [][NextSetGet]_vars

\* The stores the movers and readers start from: a key Set under one persona,
\* the other persona absent or holding another key.
Seeds ==
  {SetData(EmptyData, "p1", "a1", "k1", "v1"),
   SetData(SetData(EmptyData, "p1", "a1", "k1", "v1"), "p2", "a1", "k2", "v1")}

InitMove ==
  /\ persister = FALSE
  /\ data \in Seeds
  /\ InitRest

\* Goroutines calling Move and the four reads on a store without persister.
NextMove ==
  \/ \E g \in Goroutines, s \in Personas, d \in Personas, a \in GApps, k \in GKeys :
       GoMove(g, s, d, a, k)
  \/ \E g \in Goroutines : MoveCheck(g)
  \/ \E g \in Goroutines : MoveDelete(g)
  \/ \E g \in Goroutines : MoveInstall(g)
  \/ \E g \in Goroutines : MoveUnlock(g)
  \/ \E g \in Goroutines, p \in Personas, a \in GApps, k \in GKeys : GoGet(g, p, a, k)
  \/ \E g \in Goroutines : GetRead(g)
  \/ \E g \in Goroutines, p \in Personas, a \in GApps : GoGetAppStore(g, p, a)
  \/ \E g \in Goroutines : AppStoreRead(g)
  \/ \E g \in Goroutines, a \in GApps : GoDumpApp(g, a)
  \/ \E g \in Goroutines, p \in Personas : DumpScan(g, p)
  \/ \E g \in Goroutines : DumpReturn(g)
  \/ \E g \in Goroutines, a \in GApps, k \in Keys : GoGetGlobal(g, a, k)
  \/ \E g \in Goroutines, p \in Personas : GlobalScan(g, p)
  \/ \E g \in Goroutines : GlobalMiss(g)

SpecMove == InitMove /\ [][NextMove]_vars

\* ------------------------------------------------------------- the wire
\* A line of text is a sequence of atoms: Sp is one white-space character, every
\* other atom a run of characters without white space.
Sp == " "
\* strings.Fields: the words between runs of white space.
Fields(line) == SelectSeq(line, LAMBDA x : x # Sp)
\* strings.Join(parts, " ")
RECURSIVE Join(_)
Join(parts) ==
  IF Len(parts) = 0 THEN <<>>
  ELSE IF Len(parts) = 1 THEN parts
  ELSE <<parts[1], Sp>> \o Join(Tail(parts))
\* strings.ToUpper on the first word.
ToUpper(w) ==
  CASE w = "get" -> "GET"
    [] w = "ping" -> "PING"
    [] OTHER -> w

\* The text of a JSON value, as json.Marshal writes it.
ValueText(v) ==
  CASE v = TwoSpaces -> <<"\"a", Sp, Sp, "b\"">>
    [] v = OneSpace -> <<"\"a", Sp, "b\"">>
    [] OTHER -> <<MarshalValue(v)>>
\* A json.Unmarshal that takes a text it cannot parse as a string.
ParseValue_Lenient(text) ==
  CASE text = <<"\"a", Sp, Sp, "b\"">> -> TwoSpaces
    [] text = <<"\"a", Sp, "b\"">> -> OneSpace
    [] Len(text) = 1 /\ UnmarshalValue(text[1]) # NoVal -> UnmarshalValue(text[1])
    [] OTHER -> "v1"

\* json.Unmarshal of a text into `any`: NoVal stands for the syntax error.
ParseValue(text) ==
  CASE text = <<"\"a", Sp, Sp, "b\"">> -> TwoSpaces
    [] text = <<"\"a", Sp, "b\"">> -> OneSpace
    [] Len(text) = 1 -> UnmarshalValue(text[1])
    [] OTHER -> NoVal

\* parts[i:] in Go, parts from the (i+1)-th on.
From(parts, i) == SubSeq(parts, i + 1, Len(parts))

\* A reply line: "OK", "OK <json>", "ERR <message>" or "PONG"; the JSON of a
\* value, of a list, of one app's map, of DumpApp's map, or of GetGlobal's object.
Reply(tag, msg) ==
  [tag |-> tag, msg |-> msg, json |-> NoVal, list |-> NoList, maps |-> NoMaps, who |-> "-"]
Ok == Reply("OK", "")
Pong == Reply("PONG", "")
Err(msg) == Reply("ERR", msg)
OkValue(j) == [Reply("OKJSON", "value") EXCEPT !.json = j]
OkList(l) == [Reply("OKJSON", "list") EXCEPT !.list = l]
OkMap(p, m) == [Reply("OKJSON", "map") EXCEPT !.maps[p] = m]
OkDump(ms) == [Reply("OKJSON", "dump") EXCEPT !.maps = ms]
OkGlobal(p, j) == [Reply("OKJSON", "global") EXCEPT !.who = p, !.json = j]
\* json.Marshal of one app's map as the engine returned it.
MapJSON(rm) == [rm EXCEPT !.m = [k \in Keys |-> MarshalValue(rm.m[k])]]

\* What one pass of handleConnection's loop does with a line: the store after it,
\* the saves the engine dispatched, the reply written (none: <<>>), and whether
\* the handler returns.
Done(d, replies) == [data |-> d, saves |-> <<>>, out |-> replies, quit |-> FALSE]
Saved(d, snaps) == [data |-> d, saves |-> snaps, out |-> <<Ok>>, quit |-> FALSE]
Snap(d, p) == [persona |-> p, snap |-> copyPersonaData(d, p)]

\* The number of words each command needs: `if len(parts) < n { continue }`.
MinParts_SetWithoutValue(command) ==
  CASE command \in {"SET", "MOVE"} -> IF command = "SET" THEN 4 ELSE 5
    [] command \in {"GET", "DEL"} -> 4
    [] command \in {"DUMP", "GET_GLOBAL"} -> 3
    [] command \in {"LIST_APPS", "DUMP_APP"} -> 2
    [] OTHER -> 1

MinParts(command) ==
  CASE command \in {"SET", "MOVE"} -> 5
    [] command \in {"GET", "DEL"} -> 4
    [] command \in {"DUMP", "GET_GLOBAL"} -> 3
    [] command \in {"LIST_APPS", "DUMP_APP"} -> 2
    [] OTHER -> 1

Commands == {"GET", "SET", "DEL", "LIST_PERSONAS", "LIST_APPS", "DUMP", "DUMP_APP",
             "GET_GLOBAL", "MOVE", "PING", "QUIT"}

\* `res, err := json.Marshal(...)`: the reply, or ERR internal error.
Encoded(ok, reply) == IF ok THEN <<reply>> ELSE <<Err("internal error")>>
Encodable(rm) == \A k \in Keys : rm.m[k] # Unsupported

ExecGet(d, parts) ==
  LET r == Get(d, parts[2], parts[3], parts[4])
  IN IF r.err # Nil THEN Done(d, <<Err(r.err)>>)
     ELSE Done(d, Encoded(r.val # Unsupported, OkValue(MarshalValue(r.val))))

\* A SET whose error branch lacks the `continue`.
ExecSet_FallThrough(d, parts) ==
  LET val == ParseValue(Join(From(parts, 4)))
      v == IF val = NoVal THEN "v1" ELSE val
      d1 == SetData(d, parts[2], parts[3], parts[4], v)
  IN [data |-> d1, saves |-> <<Snap(d1, parts[2])>>,
      out |-> (IF val = NoVal THEN <<Err("invalid json value")>> ELSE <<>>) \o <<Ok>>,
      quit |-> FALSE]

\* "The value is everything after the 4th word", joined by single spaces.
ExecSet(d, parts) ==
  LET val == ParseValue(Join(From(parts, 4)))
      d1 == SetData(d, parts[2], parts[3], parts[4], val)
  IN IF val = NoVal THEN Done(d, <<Err("invalid json value")>>)
     ELSE Saved(d1, <<Snap(d1, parts[2])>>)

ExecDel(d, parts) ==
  LET d1 == DeleteData(d, parts[2], parts[3], parts[4])
  IN Saved(d1, <<Snap(d1, parts[2])>>)

\* MOVE src dst app key
ExecMove(d, parts) ==
  LET e == MoveErr(d, parts[2], parts[4], parts[5])
      d1 == MoveData(d, parts[2], parts[3], parts[4], parts[5])
  IN IF e # Nil THEN Done(d, <<Err(e)>>)
     ELSE Saved(d1, <<Snap(d1, parts[2]), Snap(d1, parts[3])>>)

ExecDump(d, parts) ==
  LET r == GetAppStore(d, parts[2], parts[3])
  IN IF r.err # Nil THEN Done(d, <<Err(r.err)>>)
     ELSE Done(d, Encoded(Encodable(r.m), OkMap(parts[2], MapJSON(r.m))))

ExecDumpApp(d, parts) ==
  LET r == DumpApp(d, parts[2])
  IN Done(d, Encoded(\A p \in Personas : Encodable(r[p]),
                     OkDump([p \in Personas |-> MapJSON(r[p])])))

\* pick is the persona GetGlobal's loop reaches first among those holding the key.
ExecGetGlobal(d, parts, pick) ==
  IF GetGlobalHits(d, parts[2], parts[3]) = {} THEN Done(d, <<Err(ErrKeyNotFound)>>)
  ELSE LET val == d[pick].m[parts[2]].m[parts[3]]
       IN Done(d, Encoded(val # Unsupported, OkGlobal(pick, MarshalValue(val))))

\* One pass of the loop of handleConnection on a line that was read.
Exec(d, line, pick) ==
  LET parts == Fields(line)
      command == ToUpper(parts[1])
  IN IF Len(parts) < 1 THEN Done(d, <<>>)
     ELSE IF command \notin Commands \/ Len(parts) < MinParts(command) THEN Done(d, <<>>)
     ELSE CASE command = "GET" -> ExecGet(d, parts)
            [] command = "SET" -> ExecSet(d, parts)
            [] command = "DEL" -> ExecDel(d, parts)
            [] command = "LIST_PERSONAS" -> Done(d, <<OkList(GetPersonas(d))>>)
            [] command = "LIST_APPS" -> Done(d, <<OkList(GetApps(d, parts[2]))>>)
            [] command = "DUMP" -> ExecDump(d, parts)
            [] command = "DUMP_APP" -> ExecDumpApp(d, parts)
            [] command = "GET_GLOBAL" -> ExecGetGlobal(d, parts, pick)
            [] command = "MOVE" -> ExecMove(d, parts)
            [] command = "PING" -> Done(d, <<Pong>>)
            [] OTHER -> [Done(d, <<>>) EXCEPT !.quit = TRUE]

\* The personas the loop of GetGlobal can reach first; any, when the line is no
\* GET_GLOBAL that finds the key.
Picks(d, line) ==
  LET parts == Fields(line)
  IN IF Len(parts) >= 3 /\ ToUpper(parts[1]) = "GET_GLOBAL"
        /\ GetGlobalHits(d, parts[2], parts[3]) # {}
     THEN GetGlobalHits(d, parts[2], parts[3])
     ELSE {"p1"}

RECURSIVE DispatchAll(_, _)
DispatchAll(q, snaps) ==
  IF Len(snaps) = 0 THEN q
  ELSE DispatchAll(Dispatch(q, snaps[1].persona, snaps[1].snap), Tail(snaps))

\* ------------------------------------------------------------- the daemon
\* The handlers inside handleConnection, the watched connection's included.
Inside == srv.running + (IF srv.conn.st = "loop" THEN 1 ELSE 0)
\* The connections accepted and not closed.
Open == srv.waiting + Inside + (IF srv.conn.st = "gate" THEN 1 ELSE 0)

\* A gate that lets one handler too many in.
CanEnter_OneMore(n) == n <= MaxHandlers

\* `semaphore <- struct{}{}` on a channel of capacity 100 does not block.
CanEnter(n) == n < MaxHandlers

\* A handler that gives its slot back only when it ends by QUIT.
Release_OnQuitOnly(n, why) == IF why = "quit" THEN n - 1 ELSE n

\* `defer func() { <-semaphore; c.Close() }()`: however handleConnection returns.
Release(n, why) == n - 1

Serving == up /\ srv.phase # "exit"

\* listener.Accept returns the watched connection; its goroutine starts.
ConnAccept ==
  /\ Serving
  /\ srv.conn.st = "none"
  /\ Open < MaxConns
  /\ srv' = [srv EXCEPT !.conn.st = "gate", !.admitted = FALSE]
  /\ UNCHANGED <<data, persister, tasks, saving, dir, up, lastCall, expect, ncalls, ncrash, ret, mu, gor, hist, cli, vlt>>

\* The watched connection's goroutine passes the gate and enters handleConnection.
ConnEnter ==
  /\ Serving
  /\ srv.conn.st = "gate"
  /\ CanEnter(srv.slots)
  /\ srv' = [srv EXCEPT !.conn.st = "loop", !.slots = @ + 1, !.admitted = TRUE]
  /\ UNCHANGED <<data, persister, tasks, saving, dir, up, lastCall, expect, ncalls, ncrash, ret, mu, gor, hist, cli, vlt>>

\* The peer writes a line to the watched connection.
PeerSend(line) ==
  /\ Serving
  /\ srv.conn.st \in {"gate", "loop"}
  /\ srv.conn.sent < MaxLines
  /\ srv' = [srv EXCEPT !.conn.inq = Append(@, line), !.conn.sent = @ + 1]
  /\ UNCHANGED <<data, persister, tasks, saving, dir, up, lastCall, expect, ncalls, ncrash, ret, mu, gor, hist, cli, vlt>>

\* handleConnection reads the next line and acts on it.
Handle ==
  /\ Serving
  /\ srv.conn.st = "loop"
  /\ srv.conn.inq # <<>>
  /\ \E pick \in Picks(data, Head(srv.conn.inq)) :
       LET x == Exec(data, Head(srv.conn.inq), pick)
       IN /\ data' = x.data
          /\ tasks' = DispatchAll(tasks, x.saves)
          /\ srv' = [srv EXCEPT !.conn.inq = Tail(@),
                                !.conn.log = Append(@, Head(srv.conn.inq)),
                                !.conn.out = @ \o x.out,
                                !.conn.st = IF x.quit THEN "closed" ELSE @,
                                !.slots = IF x.quit THEN Release(@, "quit") ELSE @,
                                !.admitted = IF x.quit THEN FALSE ELSE @]
          /\ cli' = [cli EXCEPT !.execs = IF cli.pc = "idle" THEN @ ELSE @ + 1]
  /\ UNCHANGED <<persister, saving, dir, up, lastCall, expect, ncalls, ncrash, ret, mu, gor, hist, vlt>>

\* reader.ReadString fails (the peer closed, or the deadline passed): the
\* handler returns, the slot is released and the connection closed.
ConnDrop ==
  /\ Serving
  /\ srv.conn.st = "loop"
  /\ srv.conn.inq = <<>>
  /\ srv' = [srv EXCEPT !.conn.st = "closed", !.slots = Release(@, "read"), !.admitted = FALSE]
  /\ UNCHANGED <<data, persister, tasks, saving, dir, up, lastCall, expect, ncalls, ncrash, ret, mu, gor, hist, cli, vlt>>

\* Another connection is accepted; its goroutine waits at the gate.
Accept ==
  /\ Serving
  /\ Open < MaxConns
  /\ srv' = [srv EXCEPT !.waiting = @ + 1, !.admitted = FALSE]
  /\ UNCHANGED <<data, persister, tasks, saving, dir, up, lastCall, expect, ncalls, ncrash, ret, mu, gor, hist, cli, vlt>>

Enter ==
  /\ Serving
  /\ srv.waiting > 0
  /\ CanEnter(srv.slots)
  /\ srv' = [srv EXCEPT !.waiting = @ - 1, !.running = @ + 1, !.slots = @ + 1, !.admitted = TRUE]
  /\ UNCHANGED <<data, persister, tasks, saving, dir, up, lastCall, expect, ncalls, ncrash, ret, mu, gor, hist, cli, vlt>>

\* Another handler returns: `<-semaphore; c.Close()`.
Leave ==
  /\ Serving
  /\ srv.running > 0
  /\ srv' = [srv EXCEPT !.running = @ - 1, !.slots = Release(@, "read"), !.admitted = FALSE]
  /\ UNCHANGED <<data, persister, tasks, saving, dir, up, lastCall, expect, ncalls, ncrash, ret, mu, gor, hist, cli, vlt>>

\* The signal goroutine of main receives SIGINT or SIGTERM and calls store.Wait().
Signal ==
  /\ Serving
  /\ srv.phase = "run"
  /\ srv' = [srv EXCEPT !.phase = "signal"]
  /\ UNCHANGED <<data, persister, tasks, saving, dir, up, lastCall, expect, ncalls, ncrash, ret, mu, gor, hist, cli, vlt>>

\* store.Wait() returns in the signal goroutine.
ShutdownWait ==
  /\ Serving
  /\ srv.phase = "signal"
  /\ wg = 0
  /\ srv' = [srv EXCEPT !.phase = "drained"]
  /\ UNCHANGED <<data, persister, tasks, saving, dir, up, lastCall, expect, ncalls, ncrash, ret, mu, gor, hist, cli, vlt>>

\* os.Exit(0): the process ends with whatever its goroutines were doing.
Exit ==
  /\ Serving
  /\ srv.phase = "drained"
  /\ srv' = [srv EXCEPT !.phase = "exit"]
  /\ up' = FALSE
  /\ UNCHANGED <<data, persister, tasks, saving, dir, lastCall, expect, ncalls, ncrash, ret, mu, gor, hist, cli, vlt>>

\* Lines a peer may write.
SetLine(p, a, k, text) == <<"SET", Sp, p, Sp, a, Sp, k, Sp>> \o text
GetLine(p, a, k) == <<"GET", Sp, p, Sp, a, Sp, k>>
DelLine(p, a, k) == <<"DEL", Sp, p, Sp, a, Sp, k>>
MoveLine(s, d, a, k) == <<"MOVE", Sp, s, Sp, d, Sp, a, Sp, k>>
Invalid == <<"{invalid}">>
WellFormed ==
  {SetLine("p1", "a1", "k1", ValueText("v1")), SetLine("p1", "a1", "k1", ValueText(TwoSpaces)),
   SetLine("p1", "a1", "k1", Invalid),
   GetLine("p1", "a1", "k1"), GetLine("p2", "a1", "k1"), <<"get", Sp, "p1", Sp, "a1", Sp, "k1">>,
   DelLine("p1", "a1", "k1"), MoveLine("p1", "p2", "a1", "k1"), <<"PING">>}
Dropped ==
  {<<>>, <<Sp>>, <<"SET", Sp, "p1", Sp, "a1", Sp, "k1">>, <<"GET", Sp, "p1">>,
   <<"MOVE", Sp, "p1", Sp, "p2", Sp, "a1">>, <<"FOO", Sp, "p1">>}
Lines == WellFormed \cup Dropped \cup {<<"QUIT">>}

\* One connection to a daemon.
NextWire ==
  \/ ConnAccept
  \/ ConnEnter
  \/ \E line \in Lines : PeerSend(line)
  \/ Handle
  \/ ConnDrop

SpecWire == Init /\ [][NextWire]_vars

\* The daemon with its saves and its signal goroutine.
NextDaemon ==
  \/ ConnAccept
  \/ ConnEnter
  \/ \E line \in {SetLine("p1", "a1", "k1", ValueText("v1")), DelLine("p1", "a1", "k1"),
                  SetLine("p2", "a1", "k1", ValueText("v1")), <<"QUIT">>} : PeerSend(line)
  \/ Handle
  \/ ConnDrop
  \/ \E t \in BagToSet(tasks) : SaveBegin(t)
  \/ SaveWrite
  \/ SaveRename
  \/ Signal
  \/ ShutdownWait
  \/ Exit

SpecDaemon == Init /\ [][NextDaemon]_vars

\* Listen's accept loop and the gate, with one connection watched.
NextGate ==
  \/ Accept
  \/ Enter
  \/ Leave
  \/ ConnAccept
  \/ ConnEnter
  \/ PeerSend(<<"PING">>)
  \/ Handle
  \/ ConnDrop

SpecGate == InitEngine /\ [][NextGate]_vars

\* ------------------------------------------------------------- the SDK client

\* The command line each Client method formats with fmt.Sprintf.
CmdLine(c) ==
  CASE c.op = "Get" -> GetLine(c.persona, c.app, c.key)
    [] c.op = "Set" -> SetLine(c.persona, c.app, c.key, ValueText(c.val))
    [] c.op = "Delete" -> DelLine(c.persona, c.app, c.key)
    [] c.op = "Move" -> MoveLine(c.persona, c.dst, c.app, c.key)
    [] c.op = "GetPersonas" -> <<"LIST_PERSONAS">>
    [] c.op = "GetApps" -> <<"LIST_APPS", Sp, c.persona>>
    [] c.op = "GetAppStore" -> <<"DUMP", Sp, c.persona, Sp, c.app>>
    [] c.op = "DumpApp" -> <<"DUMP_APP", Sp, c.app>>
    [] OTHER -> <<"GET_GLOBAL", Sp, c.app, Sp, c.key>>

\* json.Unmarshal of the map of one app.
MapValues(rm) == [rm EXCEPT !.m = [k \in Keys |-> UnmarshalValue(rm.m[k])]]

\* What the Client method makes of the reply sendAndReceive read: an ERR line is
\* the error with that message, anything else is unmarshalled after "OK ".
Decode(c, reply) ==
  IF reply.tag = "ERR"
  THEN IF c.op = "GetAppStore"
       THEN [Failed(reply.msg) EXCEPT !.maps[c.persona] = NilRet]
       ELSE Failed(reply.msg)
  ELSE CASE c.op \in {"Set", "Delete", "Move"} -> NoResult
         [] reply.tag # "OKJSON" -> Failed("invalid character")
         [] c.op = "Get" -> [NoResult EXCEPT !.val = UnmarshalValue(reply.json)]
         [] c.op \in {"GetPersonas", "GetApps"} -> [NoResult EXCEPT !.list = reply.list]
         [] c.op = "GetAppStore" ->
              [NoResult EXCEPT !.maps[c.persona] = MapValues(reply.maps[c.persona])]
         [] c.op = "DumpApp" ->
              [NoResult EXCEPT !.maps = [p \in Personas |-> MapValues(reply.maps[p])]]
         [] OTHER -> [NoResult EXCEPT !.val = UnmarshalValue(reply.json), !.who = reply.who]

\* The same call on an embedded MemStore d: its result and the store after it.
\* pick is the persona GetGlobal's loop reaches first.
Embedded(d, c, pick) ==
  CASE c.op = "Get" ->
         [data |-> d,
          res |-> [NoResult EXCEPT !.val = Get(d, c.persona, c.app, c.key).val,
                                   !.err = Get(d, c.persona, c.app, c.key).err]]
    [] c.op = "Set" ->
         [data |-> SetData(d, c.persona, c.app, c.key, c.val), res |-> NoResult]
    [] c.op = "Delete" ->
         [data |-> DeleteData(d, c.persona, c.app, c.key),
          res |-> Failed(DeleteErr(d, c.persona, c.app, c.key))]
    [] c.op = "Move" ->
         [data |-> MoveStore(d, c.persona, c.dst, c.app, c.key),
          res |-> Failed(MoveErr(d, c.persona, c.app, c.key))]
    [] c.op = "GetPersonas" -> [data |-> d, res |-> [NoResult EXCEPT !.list = GetPersonas(d)]]
    [] c.op = "GetApps" ->
         [data |-> d, res |-> [NoResult EXCEPT !.list = GetApps(d, c.persona)]]
    [] c.op = "GetAppStore" ->
         [data |-> d,
          res |-> [NoResult EXCEPT !.maps[c.persona] = GetAppStore(d, c.persona, c.app).m,
                                   !.err = GetAppStore(d, c.persona, c.app).err]]
    [] c.op = "DumpApp" -> [data |-> d, res |-> [NoResult EXCEPT !.maps = DumpApp(d, c.app)]]
    [] OTHER ->
         [data |-> d,
          res |-> IF GetGlobalHits(d, c.app, c.key) = {} THEN Failed(ErrKeyNotFound)
                  ELSE [NoResult EXCEPT !.val = d[pick].m[c.app].m[c.key], !.who = pick]]

\* The errors of a transport step, and the error after the last attempt.
FailedAfter(e) == "failed after 3 attempts. last error: " \o e

\* `for i := 0; i < 3; i++`
Attempts == 3
\* A loop that retries a failed write or read without counting the attempt.
AfterFailure_IoNotCounted(i, step) == IF step = "io" THEN i ELSE i + 1
\* The loop's i++, reached by `continue` and by the end of the body alike.
AfterFailure(i, step) == i + 1

\* Connect: a new Client and its first reconnect(); the daemon accepts the connection.
ClientConnect ==
  /\ Serving
  /\ cli.pc = "idle" /\ cli.conn = "nil" /\ cli.n = 0
  /\ srv.conn.st = "none"
  /\ cli' = [cli EXCEPT !.conn = "open"]
  /\ srv' = [srv EXCEPT !.conn.st = "gate"]
  /\ UNCHANGED <<data, persister, tasks, saving, dir, up, lastCall, expect, ncalls, ncrash, ret, mu, gor, hist, vlt>>

\* A Client method is called: it formats its command and enters sendAndReceive.
\* The same call is made on the embedded store kept for comparison.
ClientCall(c) ==
  /\ cli.pc = "idle" /\ cli.n < MaxCalls
  /\ cli.n > 0 \/ cli.conn = "open"
  /\ \E pick \in (IF c.op = "GetGlobal" /\ GetGlobalHits(cli.shadow, c.app, c.key) # {}
                  THEN GetGlobalHits(cli.shadow, c.app, c.key) ELSE {"p1"}) :
       cli' = [cli EXCEPT !.pc = "top", !.call = c, !.i = 0, !.writes = 0, !.last = Nil,
                          !.res = NoResult, !.n = @ + 1,
                          !.prev = [call |-> cli.call, err |-> cli.res.err],
                          !.start = data, !.execs = 0,
                          !.emb = Embedded(cli.shadow, c, pick).res,
                          !.shadow = Embedded(cli.shadow, c, pick).data]
  /\ UNCHANGED <<data, persister, tasks, saving, dir, up, lastCall, expect, ncalls, ncrash, ret, mu, gor, hist, srv, vlt>>

\* Loop head with a connection: on to the write.
ClientTop ==
  /\ cli.pc = "top" /\ cli.i < Attempts /\ cli.conn = "open"
  /\ cli' = [cli EXCEPT !.pc = "write"]
  /\ UNCHANGED <<data, persister, tasks, saving, dir, up, lastCall, expect, ncalls, ncrash, ret, mu, gor, hist, srv, vlt>>

\* reconnect() dials a new connection, which the daemon accepts; the old one is gone.
NewConn == [NoConn EXCEPT !.st = "gate"]
\* The lines of connection c that its handler has still to read.
Unread(c) == IF c.st \in {"gate", "loop"} THEN c.inq ELSE <<>>

RECURSIVE Orphaned(_, _, _)
Orphaned(b, lines, n) ==
  IF Len(lines) = 0 THEN b
  ELSE Orphaned(b (+) SetToBag({[line |-> lines[1], call |-> n]}), Tail(lines), n)

\* The client closes its old connection and goes on with conn. The old
\* connection's handler still has the lines that reached it before the close;
\* with none, it reads the end of the stream and returns when it is in its loop.
\* A handler left with lines counts as running, past the gate, until it is done.
\* n is the number of the call that reconnects.
Redialed(s, conn, n) ==
  [s EXCEPT !.conn = conn,
            !.orphans = Orphaned(@, Unread(s.conn), n),
            !.running = @ + (IF Unread(s.conn) # <<>> THEN 1 ELSE 0),
            !.slots = IF s.conn.st = "loop" /\ Unread(s.conn) = <<>> THEN Release(@, "read")
                      ELSE IF s.conn.st = "gate" /\ Unread(s.conn) # <<>> THEN @ + 1
                      ELSE @,
            !.admitted = FALSE]

\* The handler of a connection the client has left reads a line that was
\* written before the close and executes it (run), its reply going nowhere, or
\* finds the connection reset; then its read fails and it returns.
Orphan(run) ==
  /\ Serving
  /\ \E o \in BagToSet(srv.orphans) :
       \E pick \in Picks(data, o.line) :
         LET x == IF run THEN Exec(data, o.line, pick) ELSE Done(data, <<>>)
         IN /\ data' = x.data
            /\ tasks' = DispatchAll(tasks, x.saves)
            /\ srv' = [srv EXCEPT !.orphans = @ (-) SetToBag({o}),
                                  !.running = @ - 1,
                                  !.slots = Release(@, "read"),
                                  !.admitted = FALSE]
            /\ cli' = [cli EXCEPT !.execs = IF run /\ o.call = cli.n THEN @ + 1 ELSE @]
  /\ UNCHANGED <<persister, saving, dir, up, lastCall, expect, ncalls, ncrash, ret, mu, gor, hist, vlt>>

\* Loop head without a connection: reconnect() succeeds.
ClientRedial ==
  /\ Serving
  /\ cli.pc = "top" /\ cli.i < Attempts /\ cli.conn = "nil"
  /\ cli' = [cli EXCEPT !.pc = "write", !.conn = "open", !.seen = 0]
  /\ srv' = Redialed(srv, NewConn, cli.n)
  /\ UNCHANGED <<data, persister, tasks, saving, dir, up, lastCall, expect, ncalls, ncrash, ret, mu, gor, hist, vlt>>

\* Loop head without a connection: reconnect() fails, `continue`.
ClientRedialFail ==
  /\ cli.pc = "top" /\ cli.i < Attempts /\ cli.conn = "nil"
  /\ cli' = [cli EXCEPT !.i = AfterFailure(@, "reconnect"), !.last = "reconnect failed: dial"]
  /\ UNCHANGED <<data, persister, tasks, saving, dir, up, lastCall, expect, ncalls, ncrash, ret, mu, gor, hist, srv, vlt>>

\* fmt.Fprint(c.conn, cmd+"\n") succeeds: the line is on its way to the handler.
ClientWrite ==
  /\ cli.pc = "write"
  /\ srv.conn.st \in {"gate", "loop"}
  /\ cli' = [cli EXCEPT !.pc = "read", !.writes = @ + 1]
  /\ srv' = [srv EXCEPT !.conn.inq = Append(@, CmdLine(cli.call)), !.conn.sent = @ + 1]
  /\ UNCHANGED <<data, persister, tasks, saving, dir, up, lastCall, expect, ncalls, ncrash, ret, mu, gor, hist, vlt>>

\* A loop that goes round again on the connection and reader it has.
Recovered_SameConn(redial) ==
  /\ cli' = [cli EXCEPT !.pc = "top", !.i = AfterFailure(@, "io"),
                        !.writes = @ + (IF cli.pc = "write" THEN 1 ELSE 0),
                        !.last = IF cli.pc = "write" THEN "write: broken pipe" ELSE "read: i/o timeout"]
  /\ srv' = srv

\* The reconnect() that follows a failed write or read: the old connection is
\* closed; the dial succeeds (redial) or leaves the client without connection.
Recovered(redial) ==
  /\ cli' = [cli EXCEPT !.pc = "top", !.i = AfterFailure(@, "io"),
                        !.writes = @ + (IF cli.pc = "write" THEN 1 ELSE 0),
                        !.last = IF cli.pc = "write" THEN "write: broken pipe" ELSE "read: i/o timeout",
                        !.conn = IF redial THEN "open" ELSE "nil", !.seen = 0]
  /\ srv' = Redialed(srv, IF redial THEN NewConn ELSE [NoConn EXCEPT !.st = "closed"], cli.n)

\* The write fails.
ClientWriteFail(redial) ==
  /\ cli.pc = "write"
  /\ redial => Serving
  /\ Recovered(redial)
  /\ UNCHANGED <<data, persister, tasks, saving, dir, up, lastCall, expect, ncalls, ncrash, ret, mu, gor, hist, vlt>>

\* A sendAndReceive that takes an ERR reply for a failed attempt and goes round
\* the loop again.
AfterReply_RetryOnErr(c, reply) ==
  IF reply.tag = "ERR"
  THEN [c EXCEPT !.pc = "top", !.seen = @ + 1, !.i = @ + 1, !.last = "read: i/o timeout"]
  ELSE [c EXCEPT !.pc = "idle", !.seen = @ + 1, !.res = Decode(c.call, reply)]
\* The client c after ReadString returned the line reply: sendAndReceive returns
\* it, or the error of an ERR line, and the method decodes what it got.
AfterReply(c, reply) ==
  [c EXCEPT !.pc = "idle", !.seen = @ + 1, !.res = Decode(c.call, reply)]

\* c.reader.ReadString returns a reply line: the call returns.
ClientRead ==
  /\ cli.pc = "read"
  /\ Len(srv.conn.out) > cli.seen
  /\ cli' = AfterReply(cli, srv.conn.out[cli.seen + 1])
  /\ UNCHANGED <<data, persister, tasks, saving, dir, up, lastCall, expect, ncalls, ncrash, ret, mu, gor, hist, srv, vlt>>

\* The read fails: the deadline passes or the connection is closed.
ClientReadFail(redial) ==
  /\ cli.pc = "read"
  /\ redial => Serving
  /\ Recovered(redial)
  /\ UNCHANGED <<data, persister, tasks, saving, dir, up, lastCall, expect, ncalls, ncrash, ret, mu, gor, hist, vlt>>

\* The loop ends after the third failure.
ClientGiveUp ==
  /\ cli.pc = "top" /\ cli.i >= Attempts
  /\ cli' = [cli EXCEPT !.pc = "idle", !.res = Failed(FailedAfter(cli.last))]
  /\ UNCHANGED <<data, persister, tasks, saving, dir, up, lastCall, expect, ncalls, ncrash, ret, mu, gor, hist, srv, vlt>>

\* Values a caller of the SDK sets: JSON values.
JSONVals == {"v1", "float64:7", TwoSpaces}
Calls ==
  {Args("Set", p, "-", "a1", "k1", v) : p \in Personas, v \in JSONVals}
  \cup {Args(op, p, "-", "a1", "k1", NoVal) : op \in {"Get", "Delete"}, p \in Personas}
  \cup {Args("Move", "p1", "p2", "a1", "k1", NoVal), Args("Move", "p2", "p1", "a1", "k1", NoVal)}
  \cup {Args("GetPersonas", "-", "-", "-", "-", NoVal), Args("GetApps", "p1", "-", "-", "-", NoVal),
        Args("GetAppStore", "p1", "-", "a1", "-", NoVal), Args("DumpApp", "-", "-", "a1", "-", NoVal),
        Args("GetGlobal", "-", "-", "a1", "k1", NoVal)}

\* ----------------------------------------------- one Client, several goroutines
MaxShared == 2

\* A goroutine calls a Client method: the command is formatted and the goroutine
\* reaches c.mu.Lock().
SharedCall(u, c) ==
  /\ cli.conn = "open"
  /\ cli.callers[u].pc = "out" /\ cli.callers[u].n < MaxShared
  /\ cli' = [cli EXCEPT !.callers[u] = [pc |-> "lock", call |-> c, res |-> NoResult, n |-> @.n + 1]]
  /\ UNCHANGED <<data, persister, tasks, saving, dir, up, lastCall, expect, ncalls, ncrash, ret, mu, gor, hist, srv, vlt>>

\* A sendAndReceive without c.mu.
CanLock_NoMutex(owner) == TRUE
\* c.mu.Lock() returns when no goroutine holds the mutex.
CanLock(owner) == owner = "-"

\* c.mu.Lock() returns; the loop starts with a connection and sets the deadline.
SharedLock(u) ==
  /\ cli.callers[u].pc = "lock"
  /\ CanLock(cli.owner)
  /\ cli' = [cli EXCEPT !.owner = u, !.callers[u].pc = "write"]
  /\ UNCHANGED <<data, persister, tasks, saving, dir, up, lastCall, expect, ncalls, ncrash, ret, mu, gor, hist, srv, vlt>>

\* fmt.Fprint(c.conn, cmd+"\n") by goroutine u.
SharedWrite(u) ==
  /\ cli.callers[u].pc = "write"
  /\ srv.conn.st \in {"gate", "loop"}
  /\ cli' = [cli EXCEPT !.callers[u].pc = "read", !.wrote = Append(@, u)]
  /\ srv' = [srv EXCEPT !.conn.inq = Append(@, CmdLine(cli.callers[u].call)), !.conn.sent = @ + 1]
  /\ UNCHANGED <<data, persister, tasks, saving, dir, up, lastCall, expect, ncalls, ncrash, ret, mu, gor, hist, vlt>>

\* c.reader.ReadString returns the next line to goroutine u; sendAndReceive
\* returns it, the deferred c.mu.Unlock() runs, and the method decodes it.
SharedRead(u) ==
  /\ cli.callers[u].pc = "read"
  /\ Len(srv.conn.out) > cli.seen
  /\ cli' = [cli EXCEPT !.callers[u].pc = "out",
                        !.callers[u].res = Decode(cli.callers[u].call, srv.conn.out[cli.seen + 1]),
                        !.seen = @ + 1,
                        !.owner = "-"]
  /\ UNCHANGED <<data, persister, tasks, saving, dir, up, lastCall, expect, ncalls, ncrash, ret, mu, gor, hist, srv, vlt>>

SharedCalls ==
  {Args("Set", "p1", "-", "a1", "k1", "v1"), Args("Get", "p1", "-", "a1", "k1", NoVal),
   Args("Delete", "p1", "-", "a1", "k1", NoVal), Args("GetPersonas", "-", "-", "-", "-", NoVal)}

\* Goroutines sharing a Client that is connected to the daemon.
NextShared ==
  \/ ClientConnect
  \/ ConnEnter
  \/ Handle
  \/ \E u \in Callers, c \in SharedCalls : SharedCall(u, c)
  \/ \E u \in Callers : SharedLock(u)
  \/ \E u \in Callers : SharedWrite(u)
  \/ \E u \in Callers : SharedRead(u)

SpecShared == Init /\ [][NextShared]_vars

\* A Client and a daemon with a working connection between them.
NextParity ==
  \/ ClientConnect
  \/ ConnEnter
  \/ \E c \in Calls : ClientCall(c)
  \/ ClientTop
  \/ ClientWrite
  \/ Handle
  \/ ClientRead

SpecParity == Init /\ [][NextParity]_vars

\* The steps of sendAndReceive.
ClientStep ==
  \/ ClientTop
  \/ ClientRedial
  \/ ClientRedialFail
  \/ ClientWrite
  \/ \E redial \in BOOLEAN : ClientWriteFail(redial)
  \/ ClientRead
  \/ \E redial \in BOOLEAN : ClientReadFail(redial)
  \/ ClientGiveUp

RetryCalls ==
  {Args("Set", "p1", "-", "a1", "k1", "v1"), Args("Get", "p1", "-", "a1", "k1", NoVal),
   Args("Move", "p1", "p2", "a1", "k1", NoVal)}

\* Close, from a goroutine of its own: it takes no mutex. With c.conn nil both
\* of its lines call a method of a nil interface and the goroutine panics.
\* Otherwise QUIT is written when the socket still takes it, and the socket is
\* closed; c.conn keeps the closed connection. The handler returns on QUIT or
\* on the end of the stream, after the lines written before.
ClientClose ==
  /\ cli.closed = "no" /\ cli.pc # "panic"
  /\ cli.n > 0 \/ cli.conn = "open"
  /\ IF cli.conn = "nil"
     THEN /\ cli' = [cli EXCEPT !.closed = "panic", !.pc = "panic"]
          /\ srv' = srv
     ELSE /\ cli' = [cli EXCEPT !.closed = "ok", !.cut = (cli.pc = "read")]
          /\ srv' = Redialed(srv, [NoConn EXCEPT !.st = "closed"], cli.n)
  /\ UNCHANGED <<data, persister, tasks, saving, dir, up, lastCall, expect, ncalls, ncrash, ret, mu, gor, hist, vlt>>

\* The calls made on a Client whose transport fails.
MaxRetried == 2

\* A Client whose dials, writes and reads can fail, and the daemon.
NextRetry ==
  \/ ClientConnect
  \/ ConnEnter
  \/ Handle
  \/ ConnDrop
  \/ \E c \in RetryCalls : cli.n < MaxRetried /\ ClientCall(c)
  \/ ClientStep
  \/ \E run \in BOOLEAN : Orphan(run)

\* The same, with a goroutine that closes the Client.
NextClose ==
  \/ NextRetry
  \/ ClientClose

SpecClose == Init /\ [][NextClose]_vars

\* sendAndReceive runs on: every dial, write and read ends, by its deadline at
\* the latest.
SpecRetry == Init /\ [][NextRetry]_vars /\ WF_vars(ClientStep)


\* ------------------------------------------------- a store built from files
\* What a persona's file can hold when the store is built: nothing (no file),
\* the text null, the object {}, or one app with one key.
LoadedDocs ==
  {NoFile, JSONFile(NullDoc), JSONFile(Marshal(MakePersona)),
   JSONFile(Marshal([MakePersona EXCEPT !.m["a1"] = [MakeApp EXCEPT !.m["k1"] = "v1"]]))}
LoadedDirs ==
  {fs \in [FileNames -> LoadedDocs] : \A p \in Personas : fs[tempPath(p)] = NoFile}

\* NewMemStore(LoadAll(dataDir), nil) on a directory with files.
InitLoaded ==
  /\ persister = FALSE
  /\ dir \in LoadedDirs
  /\ data = NewMemStore(LoadAll(dir))
  /\ InitMost

NextLoaded ==
  \/ \E p \in Personas, a \in Apps, k \in Keys : DoGet(p, a, k)
  \/ \E p \in Personas, a \in Apps, k \in Keys, v \in {"v1"} : Set(p, a, k, v)
  \/ \E p \in Personas, a \in Apps, k \in Keys : Delete(p, a, k)

SpecLoaded == InitLoaded /\ [][NextLoaded]_vars

\* ------------------------------------------------------------- enumerations
DoGetPersonas ==
  /\ CanCall
  /\ lastCall' = Call("GetPersonas", "-", "-", "-", "-", NoVal, Nil, NoVal)
  /\ ret' = [NoRet EXCEPT !.kind = "personas", !.list = GetPersonas(data)]
  /\ ncalls' = ncalls + 1
  /\ UNCHANGED <<data, persister, tasks, saving, dir, up, expect, ncrash, mu, gor, hist, srv, cli, vlt>>

DoGetApps(p) ==
  /\ CanCall
  /\ lastCall' = Call("GetApps", p, "-", "-", "-", NoVal, Nil, NoVal)
  /\ ret' = [NoRet EXCEPT !.kind = "apps", !.list = GetApps(data, p)]
  /\ ncalls' = ncalls + 1
  /\ UNCHANGED <<data, persister, tasks, saving, dir, up, expect, ncrash, mu, gor, hist, srv, cli, vlt>>

\* A store built from files; its IDs are named and listed.
NextEnum ==
  \/ \E p \in Personas, a \in Apps : Set(p, a, "k1", "v1")
  \/ \E p \in Personas, a \in Apps : Delete(p, a, "k1")
  \/ \E s \in Personas, d \in Personas, a \in Apps : Move(s, d, a, "k1")
  \/ DoGetPersonas
  \/ \E p \in Personas : DoGetApps(p)

SpecEnum == InitLoaded /\ [][NextEnum]_vars

\* ------------------------------------------------------------- views of an app
DoGetGlobal(a, k) ==
  /\ CanCall
  /\ \E pick \in (IF GetGlobalHits(data, a, k) = {} THEN {"-"} ELSE GetGlobalHits(data, a, k)) :
       /\ lastCall' = Call("GetGlobal", "-", "-", a, k, NoVal,
                           GetGlobal(data, a, k, pick).err, GetGlobal(data, a, k, pick).val)
       /\ ret' = [NoRet EXCEPT !.kind = "global", !.who = GetGlobal(data, a, k, pick).who]
  /\ ncalls' = ncalls + 1
  /\ UNCHANGED <<data, persister, tasks, saving, dir, up, expect, ncrash, mu, gor, hist, srv, cli, vlt>>

\* A store built from files; app a1 is written, both apps are read.
NextViews ==
  \/ \E p \in Personas, k \in Keys, v \in SetVals : Set(p, "a1", k, v)
  \/ \E p \in Personas, k \in Keys : Delete(p, "a1", k)
  \/ \E p \in Personas, a \in Apps : DoGetAppStore(p, a)
  \/ \E a \in Apps : DoDumpApp(a)
  \/ \E a \in Apps, k \in Keys : DoGetGlobal(a, k)

SpecViews == InitLoaded /\ [][NextViews]_vars

\* ------------------------------------------------------------- vault
\* A Go string or []byte is a sequence of bytes, numbers in 0..255.
\* gcm.NonceSize() of the standard GCM.
NonceSize == 12
\* Longest plaintext tried.
MaxPlain == 2

\* fmt.Sprintf("%x", b): two lower-case hex digits per byte.
HexDigits == <<"0", "1", "2", "3", "4", "5", "6", "7", "8", "9", "a", "b", "c", "d", "e", "f">>
RECURSIVE ToHex(_)
ToHex(b) ==
  IF b = <<>> THEN <<>>
  ELSE <<HexDigits[(Head(b) \div 16) + 1], HexDigits[(Head(b) % 16) + 1]>> \o ToHex(Tail(b))

IsHex(c) == \E n \in 1..16 : HexDigits[n] = c
HexValue(c) == (CHOOSE n \in 1..16 : HexDigits[n] = c) - 1
\* The loop of fmt's hexString: bytes from pairs of hex digits, until the input
\* ends or a pair does not start with a hex digit; a pair cut short is an error.
RECURSIVE HexBytes(_)
HexBytes(t) ==
  IF t = <<>> \/ ~IsHex(t[1]) THEN [bytes |-> <<>>, err |-> Nil]
  ELSE IF Len(t) = 1 \/ ~IsHex(t[2]) THEN [bytes |-> <<>>, err |-> "illegal hex digit"]
  ELSE LET r == HexBytes(SubSeq(t, 3, Len(t)))
       IN [bytes |-> <<16 * HexValue(t[1]) + HexValue(t[2])>> \o r.bytes, err |-> r.err]
\* fmt.Sscanf(cipherHex, "%x", &ciphertext)
Sscanf(t) ==
  CASE t = <<>> -> [bytes |-> <<>>, err |-> "unexpected EOF"]
    [] HexBytes(t).err # Nil -> [bytes |-> <<>>, err |-> HexBytes(t).err]
    [] HexBytes(t).bytes = <<>> -> [bytes |-> <<>>, err |-> "no hex data for %x string"]
    [] OTHER -> [bytes |-> HexBytes(t).bytes, err |-> Nil]

\* A key is its length in bytes and, standing for its bytes, a number.
\* aes.NewCipher takes keys of 16, 24 or 32 bytes.
NewCipher(key) == IF key.len \in {16, 24, 32} THEN Nil ELSE "crypto/aes: invalid key size"

\* AES-GCM, idealised: the keystream and the tag are functions of the key and
\* the nonce that differ for different keys, so that Open under another key
\* fails; the 16-byte tag is one byte here.
Stream(key, nonce, i) == (key.id * 31 + nonce[1] + i) % 256
RECURSIVE Sum(_)
Sum(b) == IF b = <<>> THEN 0 ELSE Head(b) + Sum(Tail(b))
Tag(key, nonce, ct) == (key.id * 101 + Sum(nonce) + Sum(ct)) % 256
Cipher(key, nonce, pt) == [i \in 1..Len(pt) |-> (pt[i] + Stream(key, nonce, i)) % 256]
\* A Seal into a slice of its own, which leaves the nonce out of the result.
Seal_Fresh(dst, key, nonce, pt) ==
  Cipher(key, nonce, pt) \o <<Tag(key, nonce, Cipher(key, nonce, pt))>>
\* gcm.Seal(dst, nonce, plaintext, nil): appends ciphertext and tag to dst.
Seal(dst, key, nonce, pt) ==
  dst \o Cipher(key, nonce, pt) \o <<Tag(key, nonce, Cipher(key, nonce, pt))>>
\* gcm.Open(nil, nonce, ciphertext, nil)
GcmOpen(key, nonce, sealed) ==
  IF sealed = <<>> \/ sealed[Len(sealed)] # Tag(key, nonce, SubSeq(sealed, 1, Len(sealed) - 1))
  THEN [text |-> <<>>, err |-> "cipher: message authentication failed"]
  ELSE [text |-> [i \in 1..(Len(sealed) - 1) |-> (sealed[i] - Stream(key, nonce, i) + 256) % 256],
        err |-> Nil]

\* Encrypt, with nonce the bytes read from rand.Reader.
Encrypt(plaintext, key, nonce) ==
  IF NewCipher(key) # Nil THEN [text |-> <<>>, err |-> NewCipher(key)]
  ELSE [text |-> ToHex(Seal(nonce, key, nonce, plaintext)), err |-> Nil]

Decrypt(cipherHex, key) ==
  LET ciphertext == Sscanf(cipherHex).bytes
      opened == GcmOpen(key, SubSeq(ciphertext, 1, NonceSize),
                     SubSeq(ciphertext, NonceSize + 1, Len(ciphertext)))
  IN CASE Sscanf(cipherHex).err # Nil -> [text |-> <<>>, err |-> Sscanf(cipherHex).err]
       [] NewCipher(key) # Nil -> [text |-> <<>>, err |-> NewCipher(key)]
       [] Len(ciphertext) < NonceSize -> [text |-> <<>>, err |-> "ciphertext too short"]
       [] opened.err # Nil ->
            [text |-> <<>>, err |-> "decryption failed (wrong key or tampered data)"]
       [] OTHER -> [text |-> opened.text, err |-> Nil]

\* Plaintexts: byte strings, the empty one and bytes that are not UTF-8 included.
PlainBytes == {0, 104, 255}
Plains == UNION {[1..n -> PlainBytes] : n \in 0..MaxPlain}
VaultKeys == {[len |-> 32, id |-> 1], [len |-> 32, id |-> 2], [len |-> 8, id |-> 3]}
Nonces == {[i \in 1..NonceSize |-> 0], [i \in 1..NonceSize |-> (i * 37) % 256]}

\* A caller encrypts a plaintext.
VaultEncrypt(plaintext, key, nonce) ==
  /\ vlt.pc = "none"
  /\ vlt' = [pc |-> "enc", plaintext |-> plaintext, key |-> key, nonce |-> nonce,
             enc |-> Encrypt(plaintext, key, nonce)]
  /\ UNCHANGED <<data, persister, tasks, saving, dir, up, lastCall, expect, ncalls, ncrash, ret, mu, gor, hist, srv, cli>>

\* A caller decrypts what Encrypt returned, with a key of its choice.
VaultDecrypt(key) ==
  /\ vlt.pc = "enc"
  /\ vlt' = [pc |-> "dec", plaintext |-> vlt.plaintext, key |-> vlt.key, nonce |-> vlt.nonce,
             enc |-> vlt.enc, key2 |-> key, dec |-> Decrypt(vlt.enc.text, key)]
  /\ UNCHANGED <<data, persister, tasks, saving, dir, up, lastCall, expect, ncalls, ncrash, ret, mu, gor, hist, srv, cli>>

NextVault ==
  \/ \E plaintext \in Plains, key \in VaultKeys, nonce \in Nonces : VaultEncrypt(plaintext, key, nonce)
  \/ \E key \in VaultKeys : VaultDecrypt(key)

SpecVault == Init /\ [][NextVault]_vars

\* ------------------------------------------------------------- sdk.New
\* The environment: CELERIX_STORE_ADDR unset, set to the empty string, or set to
\* an address. os.Getenv returns "" for an unset variable.
Unset == "<unset>"
AddrEnv == {Unset, "", "host:7001"}
Getenv(env) == IF env = Unset THEN "" ELSE env

\* What the calls made by New return: Connect, RegisterEngine having been called
\* or not, os.MkdirAll in NewPersistence, os.ReadDir in LoadAll.
Outcomes == [dial : BOOLEAN, registered : BOOLEAN, mkdir : BOOLEAN, readdir : BOOLEAN]

\* A New that gives up when the daemon it was told about cannot be reached.
NewResult_NoFallback(env, o) ==
  CASE Getenv(env) # "" /\ o.dial -> [kind |-> "remote", err |-> Nil]
    [] Getenv(env) # "" -> [kind |-> "error", err |-> "dial tcp: connection refused"]
    [] ~o.registered -> [kind |-> "error", err |-> "embedded engine not registered"]
    [] ~o.mkdir -> [kind |-> "error", err |-> "mkdir: permission denied"]
    [] ~o.readdir -> [kind |-> "error", err |-> "open: permission denied"]
    [] OTHER -> [kind |-> "embedded", err |-> Nil]
\* New: what it returns, a remote Client, an embedded MemStore, or an error.
NewResult(env, o) ==
  CASE Getenv(env) # "" /\ o.dial -> [kind |-> "remote", err |-> Nil]
    [] ~o.registered -> [kind |-> "error", err |-> "embedded engine not registered"]
    [] ~o.mkdir -> [kind |-> "error", err |-> "mkdir: permission denied"]
    [] ~o.readdir -> [kind |-> "error", err |-> "open: permission denied"]
    [] OTHER -> [kind |-> "embedded", err |-> Nil]

\* A process without a store calls sdk.New(dataDir).
SdkNew(env, o) ==
  /\ ~up
  /\ lastCall' = [env |-> env, o |-> o, kind |-> NewResult(env, o).kind] @@
                 [NoCall EXCEPT !.op = "New", !.err = NewResult(env, o).err]
  /\ IF NewResult(env, o).kind = "embedded"
     THEN /\ data' = NewMemStore(LoadAll(dir))
          /\ persister' = TRUE
          /\ up' = TRUE
          /\ cli' = NoClient
     ELSE /\ UNCHANGED <<data, persister, up>>
          /\ cli' = IF NewResult(env, o).kind = "remote"
                    THEN [NoClient EXCEPT !.conn = "open"] ELSE NoClient
  /\ UNCHANGED <<tasks, saving, dir, expect, ncalls, ncrash, ret, mu, gor, hist, srv, vlt>>

\* A process that used an embedded store, stopped, and calls New again.
NextNew ==
  \/ \E p \in Personas, a \in PApps, k \in PKeys, v \in SetVals : Set(p, a, k, v)
  \/ \E p \in Personas, a \in PApps, k \in PKeys : Delete(p, a, k)
  \/ \E t \in BagToSet(tasks) : SaveBegin(t)
  \/ SaveWrite
  \/ SaveRename
  \/ Crash
  \/ \E env \in AddrEnv, o \in Outcomes : SdkNew(env, o)

SpecNew == Init /\ [][NextNew]_vars

\* ------------------------------------------------------------- properties
\* The step is an engine call named op.
Called(op) == ncalls' # ncalls /\ lastCall'.op = op
GetCell(d, c) == Get(d, c[1], c[2], c[3])
CallCell(c) == <<c.persona, c.app, c.key>>

\* C1: once Set(persona, app, key, v) has returned, Get(persona, app, key) returns
\* v with no error, in every state until a later Set, Delete or Move names the
\* same (persona, app, key); and a Get call made in that time returns v, nil.
C1_RoundTrip ==
  /\ \A c \in Cells : expect[c] # NoVal => GetCell(data, c) = Result(expect[c], Nil)
  /\ (lastCall.op = "Get" /\ expect[CallCell(lastCall)] # NoVal)
       => (lastCall.err = Nil /\ lastCall.res = expect[CallCell(lastCall)])

\* A Get call has returned the value of an earlier Set, with other calls in between.
C1_Witness ==
  /\ lastCall.op = "Get" /\ lastCall.err = Nil
  /\ expect[CallCell(lastCall)] = lastCall.res
  /\ ncalls >= 3
  /\ \E c \in Cells : c # CallCell(lastCall) /\ expect[c] # NoVal

\* What Get must answer in store d, told from the enumerations and the app's content.
GetAnswer(d, p, a, k) ==
  IF p \notin GetPersonas(d) THEN Result(NoVal, ErrPersonaNotFound)
  ELSE IF a \notin GetApps(d, p) THEN Result(NoVal, ErrAppNotFound)
  ELSE IF GetAppStore(d, p, a).m.m[k] = NoVal THEN Result(NoVal, ErrKeyNotFound)
  ELSE Result(GetAppStore(d, p, a).m.m[k], Nil)

\* C2: Get returns ErrPersonaNotFound exactly when the persona is absent,
\* ErrAppNotFound exactly when the persona is present and the app absent,
\* ErrKeyNotFound exactly when both are present and the key absent, the stored
\* value otherwise; and a Get call leaves the store as it was.
C2_GetErrors ==
  [][Called("Get") =>
       /\ data' = data
       /\ Result(lastCall'.res, lastCall'.err)
            = GetAnswer(data, lastCall'.persona, lastCall'.app, lastCall'.key)
       /\ (lastCall'.err = ErrPersonaNotFound) <=> (lastCall'.persona \notin GetPersonas(data))
       /\ (lastCall'.err = ErrAppNotFound) <=>
            (/\ lastCall'.persona \in GetPersonas(data)
             /\ lastCall'.app \notin GetApps(data, lastCall'.persona))
       /\ (lastCall'.err = ErrKeyNotFound) <=>
            (/\ lastCall'.persona \in GetPersonas(data)
             /\ lastCall'.app \in GetApps(data, lastCall'.persona)
             /\ GetAppStore(data, lastCall'.persona, lastCall'.app).m.m[lastCall'.key] = NoVal)
  ]_vars

\* Get has answered ErrAppNotFound for a persona that exists.
C2_Witness ==
  /\ lastCall.op = "Get" /\ lastCall.err = ErrAppNotFound
  /\ lastCall.persona \in GetPersonas(data)

\* Everything a caller can read from store d.
Observe(d) ==
  [get |-> [c \in Cells |-> GetCell(d, c)],
   personas |-> GetPersonas(d),
   apps |-> [p \in Personas |-> GetApps(d, p)],
   appStore |-> [pa \in Personas \X Apps |-> GetAppStore(d, pa[1], pa[2])],
   dump |-> [a \in Apps |-> DumpApp(d, a)]]

\* C3: Delete returns no error in every store state, and a second Delete with the
\* same arguments returns no error and leaves every Get, GetPersonas, GetApps,
\* GetAppStore and DumpApp result as it was after the first.
C3_DeleteIdempotent ==
  [][Called("Delete") =>
       /\ lastCall'.err = Nil
       /\ (lastCall.op = "Delete" /\ CallCell(lastCall) = CallCell(lastCall'))
            => Observe(data') = Observe(data)
  ]_vars

\* A Delete of a key that was there has been repeated.
C3_Witness ==
  /\ lastCall.op = "Delete" /\ lastCall.again
  /\ lastCall.app \in GetApps(data, lastCall.persona)
  /\ \E k \in Keys : GetCell(data, <<lastCall.persona, lastCall.app, k>>).err = Nil

\* The step is a Move that returned no error.
Moved == Called("Move") /\ lastCall'.err = Nil
OldValue == data[lastCall'.persona].m[lastCall'.app].m[lastCall'.key]

\* C4 as claimed: after every successful Move(src, dst, app, key), also one with
\* src = dst, Get(dst, app, key) returns the old value and Get(src, app, key)
\* returns ErrKeyNotFound.
C4_MovePost_AnySrcDst ==
  [][Moved =>
       /\ Get(data', lastCall'.dst, lastCall'.app, lastCall'.key) = Result(OldValue, Nil)
       /\ Get(data', lastCall'.persona, lastCall'.app, lastCall'.key).err = ErrKeyNotFound
  ]_vars

\* C4 amended: after a successful Move(src, dst, app, key), Get(dst, app, key)
\* returns the old value; Get(src, app, key) returns ErrKeyNotFound when
\* src # dst, and the old value when src = dst.
C4_MovePost ==
  [][Moved =>
       /\ OldValue # NoVal
       /\ Get(data', lastCall'.dst, lastCall'.app, lastCall'.key) = Result(OldValue, Nil)
       /\ lastCall'.persona # lastCall'.dst
            => Get(data', lastCall'.persona, lastCall'.app, lastCall'.key)
                 = Result(NoVal, ErrKeyNotFound)
       /\ lastCall'.persona = lastCall'.dst
            => Get(data', lastCall'.persona, lastCall'.app, lastCall'.key)
                 = Result(OldValue, Nil)
  ]_vars

\* A Move between two different personas has succeeded.
C4_Witness ==
  /\ lastCall.op = "Move" /\ lastCall.err = Nil /\ lastCall.persona # lastCall.dst
  /\ Get(data, lastCall.dst, lastCall.app, lastCall.key).err = Nil

\* What Move must return in store d, told from the enumerations and the app's content.
MoveAnswer(d, p, a, k) ==
  IF p \notin GetPersonas(d) THEN ErrPersonaNotFound
  ELSE IF a \notin GetApps(d, p) THEN ErrAppNotFound
  ELSE IF GetAppStore(d, p, a).m.m[k] = NoVal THEN ErrKeyNotFound
  ELSE Nil

\* C6: Move returns ErrPersonaNotFound, ErrAppNotFound or ErrKeyNotFound when the
\* source persona, app or key is absent, in that precedence; a Move that returns
\* an error leaves the store as it was (no destination persona or app appears)
\* and dispatches no background save.
C6_FailedMove ==
  [][Called("Move") =>
       /\ lastCall'.err = MoveAnswer(data, lastCall'.persona, lastCall'.app, lastCall'.key)
       /\ lastCall'.err # Nil =>
            /\ data' = data
            /\ GetPersonas(data') = GetPersonas(data)
            /\ tasks' = tasks /\ saving' = saving /\ wg' = wg
  ]_vars

\* A Move has failed on a missing app while its destination persona does not exist.
C6_Witness ==
  /\ lastCall.op = "Move" /\ lastCall.err = ErrAppNotFound
  /\ lastCall.dst \notin GetPersonas(data)
  /\ persister

\* C9: <persona>.json never holds a partly written file: it is missing or holds
\* the complete JSON of a snapshot handed to SavePersona, and it changes only by
\* the rename of a completely written <persona>.json.tmp; a crash changes no
\* file; and what LoadAll loads at start is the .json files only, never a .tmp.
C9_PersistenceAtomicity ==
  /\ \A p \in Personas : dir[filePath(p)] = NoFile
  /\ [][/\ \A p \in Personas :
             /\ dir'[filePath(p)].kind \in {"none", "json"}
             /\ dir'[filePath(p)] # dir[filePath(p)] =>
                  /\ saving.pc = "rename" /\ saving.persona = p
                  /\ dir[<<p, ".json.tmp">>] = JSONFile(Marshal(saving.snap))
                  /\ dir'[filePath(p)] = JSONFile(Marshal(saving.snap))
        /\ (up /\ ~up') => dir' = dir
        /\ (~up /\ up') =>
             data' = [p \in Personas |->
                        IF dir[filePath(p)].kind = "json"
                        THEN Unmarshal(dir[filePath(p)].doc)
                        ELSE AbsentPersona]
    ]_vars

\* The process has crashed between the write of <persona>.json.tmp and the rename,
\* with an older <persona>.json in place.
C9_Witness ==
  /\ ~up
  /\ \E p \in Personas :
       /\ dir[<<p, ".json.tmp">>].kind = "json"
       /\ dir[filePath(p)].kind = "json"
       /\ dir[<<p, ".json.tmp">>] # dir[filePath(p)]

\* Two Get results are the same error, or values with the same JSON.
SameResult(r1, r2) == r1.err = r2.err /\ MarshalValue(r1.val) = MarshalValue(r2.val)

\* C10: when every dispatched save has finished (Wait returns), a new MemStore
\* built from LoadAll on the data directory answers every Get as the running
\* store does.
C10_RestartDurability ==
  (up /\ wg = 0) =>
    \A c \in Cells : SameResult(GetCell(NewMemStore(LoadAll(dir)), c), GetCell(data, c))

\* What the caller reads from the collection it holds.
Held == [p \in Personas |->
           [st |-> ret.maps[p].st, m |-> Entries(data, p, ret.app, ret.maps[p])]]

\* C8: adding, replacing or removing entries in a map returned by GetAppStore or
\* DumpApp, at either level of DumpApp's map, changes no Get, GetPersonas,
\* GetApps, GetAppStore or DumpApp result of the store.
C8_ReturnedMapsIsolated ==
  [][Called("mutate") => Observe(data') = Observe(data)]_vars

\* The caller has changed an inner map of a DumpApp result, which now differs
\* from the app's content in the store.
C8_Witness ==
  /\ lastCall.op = "mutate" /\ lastCall.key # "-" /\ ret.kind = "dump"
  /\ Has(data[lastCall.persona]) /\ Has(data[lastCall.persona].m[ret.app])
  /\ Held[lastCall.persona].m # data[lastCall.persona].m[ret.app].m

\* The step is goroutine g's return from a call.
Returned(g) == gor[g].pc # "idle" /\ gor'[g].pc = "idle"
ReadOps == {"Get", "GetAppStore", "DumpApp", "GetGlobal"}
\* The read that returned with frame r reports store c.
Reports(r, c) ==
  CASE r.op = "Get" -> Get(c, r.persona, r.app, r.key) = Result(r.val, r.err)
    [] r.op = "GetAppStore" ->
         GetAppStore(c, r.persona, r.app) = [m |-> r.maps[r.persona], err |-> r.err]
    [] r.op = "DumpApp" -> r.err = Nil /\ DumpApp(c, r.app) = r.maps
    [] r.op = "GetGlobal" ->
         IF r.err = Nil
         THEN r.who \in GetGlobalHits(c, r.app, r.key) /\ r.val = c[r.who].m[r.app].m[r.key]
         ELSE r.err = ErrKeyNotFound /\ GetGlobalHits(c, r.app, r.key) = {}
    [] OTHER -> FALSE
\* The personas under which a DumpApp result shows the key.
ShownUnder(maps, k) == {p \in Personas : maps[p].st = "map" /\ maps[p].m[k] # NoVal}

\* C5: with Moves running in other goroutines, every Get, GetAppStore, DumpApp and
\* GetGlobal returns what it would return on the store before or after a whole
\* Move, never on a store between a Move's delete and its install; so with the
\* key held by one persona, DumpApp shows it under exactly one persona and
\* GetGlobal finds it.
C5_MoveAtomic ==
  [][\A g \in Goroutines :
       (Returned(g) /\ gor'[g].op \in ReadOps) =>
          /\ \E c \in gor'[g].cands : Reports(gor'[g], c)
          /\ gor'[g].op = "DumpApp" =>
               \A k \in GKeys : Cardinality(ShownUnder(gor'[g].maps, k)) = 1
          /\ (gor'[g].op = "GetGlobal" /\ gor'[g].key \in GKeys) => gor'[g].err = Nil
    ]_vars

\* A DumpApp has returned the key under the destination alone, after the other
\* goroutine's Move from p1 to p2, while that goroutine is inside its next Move
\* with the key deleted and not yet installed.
C5_Witness ==
  \E g \in Goroutines, h \in Goroutines :
    /\ g # h
    /\ gor[g].pc = "idle" /\ gor[g].op = "DumpApp"
    /\ ShownUnder(gor[g].maps, "k1") = {"p2"}
    /\ gor[h].pc = "Move.install" /\ gor[h].nops = 2
    /\ GetGlobalHits(data, "a1", "k1") = {}

\* C7: with goroutines calling Set and Get concurrently, a Get returns no error
\* but the three lookup errors, a Get that succeeds returns a value some Set
\* wrote to that key before, and a goroutine that has Set a key no other
\* goroutine writes reads back the value it Set last.
C7_ConcurrentSetGet ==
  [][\A g \in Goroutines :
       (Returned(g) /\ gor'[g].op = "Get") =>
          /\ gor'[g].err \in {Nil, ErrPersonaNotFound, ErrAppNotFound, ErrKeyNotFound}
          /\ gor'[g].err = Nil => gor'[g].val \in hist'.written[GCell(gor'[g])]
          /\ (hist'.writers[GCell(gor'[g])] = {g} /\ gor'[g].own[GCell(gor'[g])] # NoVal)
               => (gor'[g].err = Nil /\ gor'[g].val = gor'[g].own[GCell(gor'[g])])
    ]_vars

\* A goroutine has read back the value it Set on a key of its own while the other
\* goroutine, which has Set another key, is inside a Set.
C7_Witness ==
  \E g \in Goroutines, h \in Goroutines :
    /\ g # h
    /\ gor[g].pc = "idle" /\ gor[g].op = "Get" /\ gor[g].err = Nil
    /\ hist.writers[GCell(gor[g])] = {g}
    /\ gor[g].val = gor[g].own[GCell(gor[g])]
    /\ gor[h].op = "Set" /\ gor[h].nops = 2 /\ gor[h].pc = "Set.unlock"

\* C11: with no crash, once every dispatched save has finished, <persona>.json
\* holds the snapshot of the last Set, Delete or Move dispatched for that persona,
\* which is the persona as the store holds it.
C11_DiskOrder ==
  (up /\ ncrash = 0 /\ wg = 0) =>
    \A p \in Personas :
      dir[filePath(p)] # NoFile =>
        dir[filePath(p)] = JSONFile(Marshal(copyPersonaData(data, p)))

\* Wait returns in this step.
WaitReturns == lastCall'.op = "Wait" /\ lastCall' # lastCall
\* The saves dispatched and not finished: waiting for Persistence.mu or inside
\* SavePersona.
Outstanding == BagCardinality(tasks) + (IF saving.pc = "idle" THEN 0 ELSE 1)

\* C12: a Set or Delete dispatches one save and a successful Move two, before it
\* returns; and when Wait returns no dispatched save is waiting or running, and
\* no temporary file is left partly written.
C12_WaitDrains ==
  [][/\ (Called("Set") \/ Called("Delete")) => Outstanding' = Outstanding + 1
     /\ Called("Move") =>
          Outstanding' = Outstanding + (IF lastCall'.err = Nil THEN 2 ELSE 0)
     /\ WaitReturns =>
          /\ Outstanding = 0
          /\ \A p \in Personas : dir[tempPath(p)].kind # "partial" \/ ncrash > 0
    ]_vars

\* Wait has returned after at least two calls, with a save of each persona renamed.
C12_Witness ==
  /\ lastCall.op = "Wait"
  /\ ncalls >= 2
  /\ \A p \in Personas : dir[filePath(p)].kind = "json"

\* SavePersona returns an error in this step.
SaveFails ==
  \/ Outstanding' < Outstanding /\ saving.pc = "idle" /\ saving'.pc = "idle"
  \/ saving.pc = "write" /\ saving'.pc = "idle"
  \/ saving.pc = "rename" /\ saving'.pc = "idle" /\ dir' = dir /\ up'

\* C13: Set and Delete return nil, and Move the error of its source check alone,
\* whatever the saves do; a failing SavePersona changes neither the store nor a
\* returned result and leaves <persona>.json as it was; and every later call
\* acts on the store as it does without a persister.
C13_SaveFailuresDropped ==
  [][/\ (Called("Set") \/ Called("Delete")) => lastCall'.err = Nil
     /\ Called("Move") => lastCall'.err = MoveErr(data, lastCall'.persona, lastCall'.app, lastCall'.key)
     /\ SaveFails =>
          /\ data' = data /\ lastCall' = lastCall
          /\ \A p \in Personas : dir'[filePath(p)] = dir[filePath(p)]
     /\ Called("Set") =>
          data' = SetData(data, lastCall'.persona, lastCall'.app, lastCall'.key, lastCall'.val)
     /\ Called("Delete") =>
          data' = DeleteData(data, lastCall'.persona, lastCall'.app, lastCall'.key)
     /\ Called("Move") =>
          data' = MoveStore(data, lastCall'.persona, lastCall'.dst, lastCall'.app, lastCall'.key)
     /\ Called("Get") =>
          /\ lastCall'.err = Get(data, lastCall'.persona, lastCall'.app, lastCall'.key).err
          /\ lastCall'.res = Get(data, lastCall'.persona, lastCall'.app, lastCall'.key).val
    ]_vars

\* The save of a Set has failed, nothing is outstanding, the file of the persona
\* is missing, and a later Get has returned the value.
C13_Witness ==
  /\ lastCall.op = "Get" /\ lastCall.err = Nil /\ lastCall.res = Unsupported
  /\ Outstanding = 0
  /\ dir[filePath(lastCall.persona)] = NoFile

\* C14: the process exits with no dispatched save waiting or running, and from
\* the shutdown signal on no connection is accepted.
C14_ShutdownDrains ==
  [][/\ (srv.phase # "exit" /\ srv'.phase = "exit") => Outstanding = 0
     /\ (srv.phase # "run" /\ srv.conn.st = "none") => srv'.conn.st = "none"
    ]_vars

\* C15: at most MaxHandlers handlers are inside handleConnection; a connection
\* accepted beyond that waits at the gate, where none of its lines is read, no
\* reply written and the store not touched for it.
C15_AdmissionGate ==
  /\ Inside <= MaxHandlers
  /\ [][/\ Inside' <= MaxHandlers
        /\ srv.conn.st = "gate" =>
             /\ srv'.conn.out = srv.conn.out
             /\ Len(srv'.conn.inq) >= Len(srv.conn.inq)
             /\ data' = data
       ]_vars

\* The gate is full and the watched connection waits at it with a line sent.
C15_Witness ==
  /\ Inside = MaxHandlers
  /\ srv.waiting >= 1
  /\ srv.conn.st = "gate"
  /\ srv.conn.inq # <<>>

\* handleConnection reads a line of the watched connection in this step.
LineRead == srv.conn.st = "loop" /\ Len(srv'.conn.log) = Len(srv.conn.log) + 1
\* The tokens of the line being read, and the command its first token names.
Words == Fields(Head(srv.conn.inq))
Named == ToUpper(Words[1])
\* The number of tokens each command takes.
Required(command) ==
  CASE command \in {"LIST_PERSONAS", "PING", "QUIT"} -> 1
    [] command \in {"LIST_APPS", "DUMP_APP"} -> 2
    [] command \in {"DUMP", "GET_GLOBAL"} -> 3
    [] command \in {"GET", "DEL"} -> 4
    [] OTHER -> 5
\* The line names a known command and carries the tokens it requires.
Complete == Len(Words) >= 1 /\ Named \in Commands /\ Len(Words) >= Required(Named)

C18_DroppedSilently ==
  [][(LineRead /\ ~Complete) =>
       /\ srv'.conn.out = srv.conn.out
       /\ data' = data /\ tasks' = tasks
       /\ srv'.conn.st = "loop"
    ]_vars

\* A truncated SET and an unknown command were dropped and the PING after them
\* was answered.
C18_Witness ==
  /\ srv.conn.log = <<<<"SET", Sp, "p1", Sp, "a1", Sp, "k1">>, <<"FOO", Sp, "p1">>, <<"PING">>>>
  /\ srv.conn.out = <<Pong>>
  /\ srv.conn.st = "loop"
  /\ data = EmptyData

\* C19: a SET whose value is not JSON is answered with ERR invalid json value
\* alone; the store is unchanged, no save is dispatched, and the handler stays in
\* its loop.
C19_InvalidJSON ==
  [][(LineRead /\ Complete /\ Named = "SET" /\ From(Words, 4) = Invalid) =>
       /\ srv'.conn.out = Append(srv.conn.out, Err("invalid json value"))
       /\ data' = data /\ tasks' = tasks
       /\ srv'.conn.st = "loop"
    ]_vars

\* A SET with an invalid value was refused and the SET and GET after it answered.
C19_Witness ==
  /\ srv.conn.log = <<SetLine("p1", "a1", "k1", Invalid),
                      SetLine("p1", "a1", "k1", ValueText("v1")), GetLine("p1", "a1", "k1")>>
  /\ srv.conn.out = <<Err("invalid json value"), Ok, OkValue("\"v1\"")>>
  /\ BagCardinality(tasks) = 1

\* sendAndReceive returns in this step.
ClientReturns == cli.pc # "idle" /\ cli'.pc = "idle"
\* The remote result r of call c agrees with the embedded result e on a store in
\* state d: the same error message, value, list and maps; for GetGlobal, whose
\* loop may reach any persona holding the key first, a persona that holds the
\* key in d and its value there.
Agrees(c, r, e, d) ==
  /\ r.err = e.err
  /\ r.list = e.list
  /\ \A p \in Personas : r.maps[p].st = e.maps[p].st /\ r.maps[p].m = e.maps[p].m
  /\ IF c.op = "GetGlobal" /\ e.err = Nil
     THEN r.who \in GetGlobalHits(d, c.app, c.key) /\ r.val = d[r.who].m[c.app].m[c.key]
     ELSE r.val = e.val /\ r.who = e.who

\* C16: over a working connection, every call of a Client returns the result and
\* the error message that the same call returns on an embedded MemStore which
\* started empty like the daemon's and was given the same calls.
C16_ProtocolParity ==
  [][ClientReturns => Agrees(cli'.call, cli'.res, cli'.emb, cli'.shadow)]_vars

\* The errors a failed dial, write or read leaves in err.
TransportErrors == {"reconnect failed: dial", "write: broken pipe", "read: i/o timeout"}

\* C20: one call of a Client writes its command at most 3 times; it returns;
\* and when 3 attempts have failed it returns the error "failed after 3
\* attempts" with the error of the last failed attempt, and no value.
C20_BoundedRetry ==
  /\ [](cli.writes <= 3 /\ cli.i <= 3)
  /\ [][(ClientReturns /\ cli.i = 3) =>
          /\ cli.last \in TransportErrors
          /\ cli'.res = Failed("failed after 3 attempts. last error: " \o cli.last)]_vars
  /\ [][(cli.pc # "idle" /\ cli'.i # cli.i) =>
          cli'.i = cli.i + 1 /\ cli'.last \in TransportErrors /\ cli'.pc = "top"]_vars
  /\ (cli.pc # "idle" ~> cli.pc = "idle")

\* A call wrote its command three times, failed three times, the last time on
\* a read, and returned that.
C20_Witness ==
  /\ cli.pc = "idle" /\ cli.i = 3 /\ cli.writes = 3
  /\ cli.res = Failed("failed after 3 attempts. last error: read: i/o timeout")

\* ReadString returns a line in this step, and the line is reply.
ReplyRead(reply) ==
  /\ cli.pc = "read" /\ cli'.seen = cli.seen + 1
  /\ reply = srv.conn.out[cli.seen + 1]

\* C21: when the line the client reads begins with ERR, the call returns at once
\* with the rest of the line as its error: the command is not written again,
\* the loop counter does not move, and the connection stays the one it was.
C21_NoRetryOnErr ==
  [][\A msg \in {ErrPersonaNotFound, ErrAppNotFound, ErrKeyNotFound, "invalid json value"} :
       ReplyRead(Err(msg)) =>
         /\ cli'.pc = "idle" /\ cli'.res = Failed(msg)
         /\ cli'.writes = cli.writes /\ cli'.i = cli.i
         /\ cli'.conn = "open" /\ srv' = srv
    ]_vars

\* A Get on the second attempt, after a failed first one, was answered with ERR
\* and returned that error; the command was written twice, not three times.
C21_Witness ==
  /\ cli.pc = "idle" /\ cli.call.op = "Get"
  /\ cli.res = Failed(ErrPersonaNotFound)
  /\ cli.i = 1 /\ cli.writes = 2 /\ cli.conn = "open"

\* The goroutines inside sendAndReceive, past c.mu.Lock().
Exchanging == {u \in Callers : cli.callers[u].pc \in {"write", "read"}}

\* C22: with goroutines sharing a Client, at most one is between writing its
\* command and reading a reply; the daemon has written one reply for each line
\* it read; and the line a goroutine reads is the reply to a line that this
\* goroutine wrote, its own command, so that what it returns is the decoded
\* reply to its own call.
C22_SharedClient ==
  /\ [](Cardinality(Exchanging) <= 1)
  /\ [][\A u \in Callers :
          (cli.callers[u].pc = "read" /\ cli'.callers[u].pc = "out") =>
            /\ cli.wrote[cli.seen + 1] = u
            /\ srv.conn.log[cli.seen + 1] = CmdLine(cli.callers[u].call)
            /\ cli'.callers[u].res = Decode(cli.callers[u].call, srv.conn.out[cli.seen + 1])
            /\ cli'.owner = "-"
       ]_vars
  /\ [](Len(srv.conn.out) = Len(srv.conn.log))

\* Goroutine u2 was blocked on the mutex while u1's Set was answered, and then
\* read the reply to its own Get: the value u1 had set.
C22_Witness ==
  /\ cli.wrote = <<"u1", "u2">>
  /\ cli.callers["u1"].call.op = "Set" /\ cli.callers["u1"].pc = "out"
  /\ cli.callers["u2"].call.op = "Get" /\ cli.callers["u2"].pc = "out"
  /\ cli.callers["u2"].res = [NoResult EXCEPT !.val = "v1"]
  /\ cli.seen = 2

\* The call that returns now is a Get of the cell that the call before it, a Set
\* that returned no error, wrote.
GetAfterSet ==
  /\ ClientReturns
  /\ cli.call.op = "Get" /\ cli.prev.call.op = "Set" /\ cli.prev.err = Nil
  /\ CallCell(cli.call) = CallCell(cli.prev.call)

\* C23: over a working connection, Client.Set(persona, app, key, v) followed by
\* Client.Get(persona, app, key) returns v and no error, for every JSON value v,
\* strings with spaces included.
C23_ClientRoundTrip ==
  [][GetAfterSet => cli'.res.err = Nil /\ cli'.res.val = cli.prev.call.val]_vars

\* New returns in this step.
NewReturns == lastCall'.op = "New" /\ ~up

\* C24: New returns the remote client exactly when CELERIX_STORE_ADDR is set to
\* a non-empty address and Connect succeeds. Otherwise it takes the embedded
\* path: it returns an error exactly when a step of that path fails, and else a
\* store with a persister that holds what LoadAll returns for the directory.
C24_Discovery ==
  [][NewReturns =>
       LET env == lastCall'.env
           o == lastCall'.o
           remote == env \notin {Unset, ""} /\ o.dial
           pathOK == o.registered /\ o.mkdir /\ o.readdir
       IN /\ (lastCall'.kind = "remote") = remote
          /\ (lastCall'.kind = "remote") = (cli'.conn = "open")
          /\ (lastCall'.err # Nil) = (~remote /\ ~pathOK)
          /\ (lastCall'.kind = "embedded") = (~remote /\ pathOK)
          /\ lastCall'.kind = "embedded" =>
                /\ up' /\ persister'
                /\ \A p \in Personas : data'[p] = LoadAll(dir)[p]
                /\ \A c \in Cells :
                     dir[filePath(c[1])].kind = "json" =>
                       GetCell(data', c).val =
                         (IF dir[filePath(c[1])].doc.st = "object" /\ Has(dir[filePath(c[1])].doc.m[c[2]])
                          THEN UnmarshalValue(dir[filePath(c[1])].doc.m[c[2]].m[c[3]]) ELSE NoVal)
          /\ lastCall'.kind # "embedded" => data' = data /\ ~up'
    ]_vars

\* The address was set but the daemon could not be reached: New fell back to the
\* embedded store and loaded the value an earlier run had saved.
C24_Witness ==
  /\ lastCall.op = "New" /\ lastCall.env = "host:7001" /\ ~lastCall.o.dial
  /\ lastCall.kind = "embedded" /\ up
  /\ Get(data, "p1", "a1", "k1").val = "v1"
  /\ ncrash = 1

\* C25: for a plaintext p and 32-byte keys k and k2, Encrypt(p, k) returns no
\* error; Decrypt of its result under k returns p and no error; under k2 # k it
\* returns an error and the empty string.
C25_VaultRoundTrip ==
  (vlt.pc = "dec" /\ vlt.key.len = 32 /\ vlt.key2.len = 32) =>
    /\ vlt.enc.err = Nil
    /\ vlt.key2 = vlt.key => vlt.dec = [text |-> vlt.plaintext, err |-> Nil]
    /\ vlt.key2 # vlt.key => vlt.dec.err # Nil /\ vlt.dec.text = <<>>

\* A two-byte plaintext that is not UTF-8 came back under the right key.
C25_Witness ==
  /\ vlt.pc = "dec" /\ vlt.plaintext = <<255, 104>> /\ vlt.key.len = 32
  /\ vlt.key2 = vlt.key /\ vlt.dec.text = <<255, 104>> /\ vlt.dec.err = Nil
  /\ Len(vlt.enc.text) = 2 * (NonceSize + 3)

\* The errors of Get.
NotFound == {ErrPersonaNotFound, ErrAppNotFound, ErrKeyNotFound}

\* C26: after Delete(persona, app, key), Get(persona, app, key) returns a
\* not-found error and no value, ErrKeyNotFound when the persona and the app
\* existed before the call, whether or not other keys remain in the app; and
\* Get of every other (persona, app, key) returns what it returned before.
C26_DeleteOneKey ==
  [][Called("Delete") =>
       LET c == CallCell(lastCall')
       IN /\ GetCell(data', c).err \in NotFound /\ GetCell(data', c).val = NoVal
          /\ (c[1] \in GetPersonas(data) /\ c[2] \in GetApps(data, c[1])) =>
                GetCell(data', c).err = ErrKeyNotFound
          /\ \A o \in Cells \ {c} : GetCell(data', o) = GetCell(data, o)
    ]_vars

\* The last key of an app was deleted: the app is still listed, Get of the key
\* answers ErrKeyNotFound, and a key of another app is still there.
C26_Witness ==
  /\ lastCall.op = "Delete"
  /\ lastCall.app \in GetApps(data, lastCall.persona)
  /\ \A k \in Keys : data[lastCall.persona].m[lastCall.app].m[k] = NoVal
  /\ expect[CallCell(lastCall)] = NoVal
  /\ GetCell(data, CallCell(lastCall)).err = ErrKeyNotFound
  /\ \E o \in Cells : o[1] = lastCall.persona /\ GetCell(data, o).err = Nil
  /\ ncalls >= 3

\* The Delete called in this step names a persona or an app that does not exist.
DeleteMissing ==
  /\ Called("Delete")
  /\ \/ lastCall'.persona \notin GetPersonas(data)
     \/ lastCall'.app \notin GetApps(data, lastCall'.persona)

\* C27: a Delete that names a missing persona or app changes no Get,
\* GetPersonas, GetApps, GetAppStore or DumpApp result; and whenever every save
\* has finished, a persona that the store does not hold has no entry in what
\* LoadAll returns, and Get on it in a store built from the directory returns
\* ErrPersonaNotFound.
C27_DeleteMissingNoOp ==
  /\ [][DeleteMissing => Observe(data') = Observe(data)]_vars
  /\ []((up /\ wg = 0) =>
          \A p \in Personas \ GetPersonas(data) :
            /\ LoadAll(dir)[p] = AbsentPersona
            /\ \A a \in Apps, k \in Keys :
                 Get(NewMemStore(LoadAll(dir)), p, a, k).err = ErrPersonaNotFound)

\* C28 as stated: Set returns no error whatever exists, Get of the cell written
\* then returns the value, and the result of Get, value and error, is as before
\* for every other (persona, app, key).
C28_SetOneKey_AnyResult ==
  [][Called("Set") =>
       LET c == CallCell(lastCall')
       IN /\ lastCall'.err = Nil
          /\ GetCell(data', c) = Result(lastCall'.val, Nil)
          /\ \A o \in Cells \ {c} : GetCell(data', o) = GetCell(data, o)
    ]_vars

\* C28: Set returns no error whether or not the persona and the app exist, also
\* for a persona loaded as null or as an empty object; afterwards the persona
\* and the app are listed and Get of the cell written returns the value. For
\* every other (persona, app, key) Get returns the value it returned before;
\* its error changes only for a cell of the persona written whose persona or
\* app did not exist, from ErrPersonaNotFound or ErrAppNotFound to the error
\* of the first level now missing.
C28_SetOneKey ==
  [][Called("Set") =>
       LET c == CallCell(lastCall')
       IN /\ lastCall'.err = Nil
          /\ GetCell(data', c) = Result(lastCall'.val, Nil)
          /\ c[1] \in GetPersonas(data') /\ c[2] \in GetApps(data', c[1])
          /\ \A o \in Cells \ {c} :
               /\ GetCell(data', o).val = GetCell(data, o).val
               /\ GetCell(data', o) # GetCell(data, o) =>
                    /\ o[1] = c[1]
                    /\ GetCell(data, o).err \in {ErrPersonaNotFound, ErrAppNotFound}
                    /\ GetCell(data', o).err =
                         (IF o[2] = c[2] \/ o[2] \in GetApps(data, o[1])
                          THEN ErrKeyNotFound ELSE ErrAppNotFound)
    ]_vars

\* Set wrote into a persona that had been loaded from a file holding null, next
\* to a persona loaded with a value, which is still there.
C28_Witness ==
  /\ lastCall.op = "Set" /\ lastCall.persona = "p1"
  /\ dir[filePath("p1")] = JSONFile(NullDoc)
  /\ ncalls = 1
  /\ GetCell(data, CallCell(lastCall)) = Result("v1", Nil)
  /\ Get(data, "p2", "a1", "k1") = Result("v1", Nil)

\* What the goroutine holding task t reads from its snapshot in store state d.
SnapshotShows(t, d) == ReadSnapshot(t.snap, d, t.persona)
\* Snapshot s is persona p as the store d shows it: nil exactly for a persona not
\* listed, else the apps listed with the values Get returns.
Faithful(s, d, p) ==
  /\ (s.st = "nil") = (p \notin GetPersonas(d))
  /\ s.st # "nil" =>
       \A a \in Apps :
         /\ Has(s.m[a]) = (a \in GetApps(d, p))
         /\ \A k \in Keys : s.m[a].m[k] = Get(d, p, a, k).val
\* The tasks dispatched in this step.
NewTasks == {t \in BagToSet(tasks') : CopiesIn(t, tasks') > CopiesIn(t, tasks)}
\* A Set, Delete or Move returns without error in this step of a store with a
\* persister.
Dispatches ==
  /\ persister
  /\ \E op \in {"Set", "Delete", "Move"} : Called(op)
  /\ lastCall'.err = Nil

\* C29: the snapshots a Set, Delete or Move hands to its saves, one for the
\* persona named and for Move one for source and destination each, show the
\* persona as it is when the call has made its change: with the value written,
\* without the key deleted or moved away. And no step, a later Set, Delete or
\* Move least of all, changes what a snapshot still waiting or being written
\* shows.
C29_SnapshotDiscipline ==
  [][/\ Dispatches =>
          LET c == lastCall'
          IN /\ {t.persona : t \in NewTasks} =
                  (IF c.op = "Move" THEN {c.persona, c.dst} ELSE {c.persona})
             /\ BagCardinality(tasks') =
                  BagCardinality(tasks) + (IF c.op = "Move" THEN 2 ELSE 1)
             /\ \A t \in NewTasks :
                  /\ Faithful(SnapshotShows(t, data'), data', t.persona)
                  /\ (c.op = "Set" \/ (c.op = "Move" /\ t.persona = c.dst)) =>
                       SnapshotShows(t, data').m[c.app].m[c.key] = Get(data', t.persona, c.app, c.key).val
                  /\ (c.op = "Set") => SnapshotShows(t, data').m[c.app].m[c.key] = c.val
                  /\ (c.op = "Delete" \/ (c.op = "Move" /\ t.persona # c.dst)) =>
                       SnapshotShows(t, data').m[c.app].m[c.key] = NoVal
     /\ \A t \in BagToSet(tasks) :
          BagIn(t, tasks') => SnapshotShows(t, data') = SnapshotShows(t, data)
     /\ (saving.pc # "idle" /\ saving'.pc # "idle") => saving'.snap = saving.snap
    ]_vars

\* A snapshot with the value of an earlier Set is still waiting for its save
\* while the store no longer holds that value.
C29_Witness ==
  \E t \in BagToSet(tasks) :
    /\ t.snap.st = "map" /\ t.snap.m["a1"].m["k1"] = "v1"
    /\ Get(data, t.persona, "a1", "k1").val # "v1"
    /\ lastCall.op \in {"Delete", "Move"} /\ lastCall.err = Nil
    /\ BagCardinality(tasks) >= 2

\* ------------------------------------------------- the gate's slots
\* The gate with peers that also end their connection by QUIT. A send on a
\* channel with room goes through: while a goroutine is blocked on
\* `semaphore <- struct{}{}` and a slot is free, one of the blocked goroutines
\* proceeds; which one is the runtime's choice.
MaxGateLines == 1

NextSlots ==
  \/ Accept
  \/ Enter
  \/ Leave
  \/ ConnAccept
  \/ ConnEnter
  \/ \E line \in {<<"PING">>, <<"QUIT">>} : srv.conn.sent < MaxGateLines /\ PeerSend(line)
  \/ Handle
  \/ ConnDrop

SpecSlots == InitEngine /\ [][NextSlots]_vars /\ WF_vars(Enter \/ ConnEnter)

\* The goroutines blocked at the gate.
AtGate == srv.waiting + (IF srv.conn.st = "gate" THEN 1 ELSE 0)

\* The watched handler returns in this step.
HandlerEnds == srv.conn.st = "loop" /\ srv'.conn.st # "loop"

\* C30: the slots taken from the semaphore are as many as the handlers inside
\* handleConnection; a handler that ends, by QUIT or by a failed read, gives its
\* slot back and leaves its connection closed; and whenever fewer than
\* MaxHandlers handlers are inside while handlers wait at the gate, one of the
\* waiting handlers is admitted.
C30_SlotsReturned ==
  /\ [](srv.slots = Inside)
  /\ [][/\ HandlerEnds => (srv'.conn.st = "closed" /\ srv'.slots = srv.slots - 1)
        /\ srv'.running < srv.running => srv'.slots = srv.slots - 1
       ]_vars
  /\ (AtGate > 0 /\ Inside < MaxHandlers) ~> srv.admitted

\* The watched handler ended by QUIT when the gate was full and others waited:
\* one slot is free for them.
C30_Witness ==
  /\ srv.conn.st = "closed" /\ ~srv.admitted
  /\ Len(srv.conn.log) > 0 /\ srv.conn.log[Len(srv.conn.log)] = <<"QUIT">>
  /\ srv.slots = MaxHandlers - 1
  /\ srv.waiting > 0

\* ------------------------------------------------- the client's retries
\* An attempt fails on its write or its read in this step.
AttemptFails == cli.pc \in {"write", "read"} /\ cli'.pc = "top"
\* The command is written in this step.
CommandWritten == cli.pc = "write" /\ cli'.pc = "read"

\* C31: a failed write or read leaves the client with a connection on which
\* nothing was written or read, or with none; a failed dial writes nothing; a
\* command is written on a connection whose earlier replies were all read; and
\* the line a call returns is the last reply on its connection, the reply to the
\* last line written there, which is the call's command.
C31_ReconnectBeforeRetry ==
  [][/\ AttemptFails =>
          /\ cli'.seen = 0
          /\ \/ cli'.conn = "nil" /\ srv'.conn.st = "closed"
             \/ cli'.conn = "open" /\ srv'.conn = NewConn
     /\ (cli.pc = "top" /\ cli'.i = cli.i + 1) => srv' = srv
     /\ CommandWritten =>
          /\ cli.seen = srv.conn.sent
          /\ srv'.conn.inq = <<CmdLine(cli.call)>>
     /\ (cli.pc = "read" /\ cli'.pc = "idle") =>
          /\ cli'.seen = srv.conn.sent /\ cli'.seen = Len(srv.conn.out)
          /\ srv.conn.inq = <<>> /\ Len(srv.conn.log) = srv.conn.sent
          /\ srv.conn.log[Len(srv.conn.log)] = CmdLine(cli.call)
          /\ cli'.res = Decode(cli.call, srv.conn.out[Len(srv.conn.out)])
    ]_vars

\* A call returned the reply to its second writing of the command, the only
\* line on the connection dialed after the first attempt's read failed, while
\* the first writing still lies with the handler of the connection left behind.
C31_Witness ==
  /\ cli.pc = "idle" /\ cli.n > 0 /\ cli.res.err = Nil
  /\ cli.i = 1 /\ cli.writes = 2
  /\ srv.conn.sent = 1 /\ cli.seen = 1
  /\ BagIn([line |-> CmdLine(cli.call), call |-> cli.n], srv.orphans)

\* The store d holds, under the destination of the Move c, the value that the
\* store d0 held under its source, and nothing under the source any more.
MovedSince(d0, d, c) ==
  /\ Get(d0, c.persona, c.app, c.key).err = Nil
  /\ Get(d, c.persona, c.app, c.key).err # Nil
  /\ Get(d, c.dst, c.app, c.key).err = Nil
  /\ Get(d, c.dst, c.app, c.key).val = Get(d0, c.persona, c.app, c.key).val

\* C37: the daemon executes the command of one Set, Delete or Move call of the
\* client at most once, whatever the client retries; and when Client.Move
\* returns an error the daemon has not executed it and the key has not moved.
C37_AtMostOnce ==
  /\ [](cli.call.op \in {"Set", "Delete", "Move"} => cli.execs <= 1)
  /\ [][(ClientReturns /\ cli.call.op = "Move" /\ cli'.res.err # Nil) =>
          ~MovedSince(cli.start, data', cli.call)]_vars

\* C40: Close returns without a fault in every state of the client, and it does
\* not come between the command a call has written and the reply the call waits
\* for.
C40_CloseSafe ==
  /\ cli.closed # "panic"
  /\ ~cli.cut

\* The apps named under persona p.
NamedApps(p) == {a \in Apps : <<p, a>> \in hist.apps}

\* C32: GetPersonas returns the personas the store was built with and those a
\* Set or a successful Move named as target, no other; GetApps(p) the apps
\* likewise, and nothing, without error, for a persona that was never named;
\* Delete and Move take no ID off these lists.
C32_Enumeration ==
  /\ [](/\ GetPersonas(data) = hist.personas
        /\ \A p \in Personas : GetApps(data, p) = NamedApps(p))
  /\ [][/\ Called("GetPersonas") =>
             lastCall'.err = Nil /\ ret'.list = hist.personas
        /\ Called("GetApps") =>
             /\ lastCall'.err = Nil /\ ret'.list = NamedApps(lastCall'.persona)
             /\ lastCall'.persona \notin hist.personas => ret'.list = {}
        /\ (Called("Delete") \/ Called("Move")) =>
             /\ GetPersonas(data) \subseteq GetPersonas(data')
             /\ \A p \in Personas : GetApps(data, p) \subseteq GetApps(data', p)
       ]_vars

\* GetApps lists an app of a persona that a Move created, after the only key
\* of that app was deleted again.
C32_Witness ==
  /\ lastCall.op = "GetApps" /\ ret.kind = "apps" /\ ret.list = {"a1"}
  /\ lastCall.persona = "p2"
  /\ hist.committed["p2"].st = "absent"
  /\ Get(data, "p2", "a1", "k1").err = ErrKeyNotFound

\* Store d has app a under persona p, as Get tells it.
HasApp(d, p, a) ==
  \A k \in Keys : Get(d, p, a, k).err \notin {ErrPersonaNotFound, ErrAppNotFound}
\* The map rm handed to the caller holds what Get finds under (p, a) in d.
SameContent(d, p, a, rm) ==
  /\ rm.st = "map"
  /\ \A k \in Keys : Entries(d, p, a, rm)[k] = Get(d, p, a, k).val

\* C33: GetAppStore returns ErrAppNotFound, and nil, when the persona is missing
\* and when the persona lacks the app, never ErrPersonaNotFound; otherwise no
\* error and a map with the keys and values Get finds under the app.
C33_GetAppStore ==
  [][Called("GetAppStore") =>
       LET c == lastCall'
       IN IF HasApp(data, c.persona, c.app)
          THEN c.err = Nil /\ SameContent(data', c.persona, c.app, ret'.maps[c.persona])
          ELSE c.err = ErrAppNotFound /\ ret'.maps[c.persona].st = "nil"
    ]_vars

\* GetAppStore returned an empty map, without error, for an app that was
\* loaded with a key which has been deleted since.
C33_Witness ==
  /\ lastCall.op = "GetAppStore" /\ lastCall.err = Nil /\ lastCall.app = "a1"
  /\ ret.maps[lastCall.persona].st = "map" /\ ret.maps[lastCall.persona].m = EmptyKeys
  /\ Get(hist.committed, lastCall.persona, "a1", "k1").err = Nil

\* C34: DumpApp returns no error and a map with an entry for exactly the
\* personas that have the app at the moment of the call, each entry holding
\* the keys and values Get finds there; no entry when no persona has the app.
C34_DumpApp ==
  [][Called("DumpApp") =>
       LET c == lastCall'
       IN /\ c.err = Nil
          /\ \A p \in Personas :
               IF HasApp(data, p, c.app)
               THEN SameContent(data', p, c.app, ret'.maps[p])
               ELSE ret'.maps[p].st = "absent"
    ]_vars

\* DumpApp returned the content of the app under one persona and no entry for
\* the other persona, which exists without the app.
C34_Witness ==
  /\ lastCall.op = "DumpApp" /\ lastCall.app = "a1"
  /\ ret.maps["p1"].st = "map" /\ ret.maps["p1"].m["k2"] = "int:7"
  /\ ret.maps["p2"].st = "absent" /\ "p2" \in GetPersonas(data)

\* The personas that hold key k of app a in store d, as Get tells it.
Holders(d, a, k) == {p \in Personas : Get(d, p, a, k).err = Nil}

\* C35: GetGlobal returns ErrKeyNotFound exactly when no persona holds the key
\* under the app; otherwise no error, a persona that holds the key and the
\* value Get finds under that persona, the only holder when there is one.
C35_GetGlobal ==
  [][Called("GetGlobal") =>
       LET c == lastCall'
       IN /\ c.err \in {Nil, ErrKeyNotFound}
          /\ c.err = ErrKeyNotFound <=> Holders(data, c.app, c.key) = {}
          /\ c.err = Nil =>
               /\ ret'.who \in Holders(data, c.app, c.key)
               /\ Get(data, ret'.who, c.app, c.key).val = c.res
               /\ Cardinality(Holders(data, c.app, c.key)) = 1 =>
                    Holders(data, c.app, c.key) = {ret'.who}
    ]_vars

\* GetGlobal returned the second persona's value of a key that both personas
\* hold with different values.
C35_Witness ==
  /\ lastCall.op = "GetGlobal" /\ lastCall.err = Nil /\ ret.who = "p2"
  /\ Holders(data, lastCall.app, lastCall.key) = Personas
  /\ lastCall.res = "int:7"
  /\ Get(data, "p1", lastCall.app, lastCall.key).val = "v1"

\* SavePersona finishes for its persona in this step.
SaveDone == saving.pc = "rename" /\ saving'.pc = "idle" /\ dir' # dir
\* The process starts in this step: LoadAll, then NewMemStore.
Booted == ~up /\ up'

\* C36: LoadAll has an entry for a persona exactly when <persona>.json is there
\* and reads and decodes, whatever the state of the other files, and never
\* for a <persona>.json.tmp; when SavePersona has finished for a persona, that
\* entry has the JSON of the data saved and the other entries are as before;
\* a file that is damaged loses its entry and the others stay; and a store
\* that starts on the directory holds what LoadAll gives.
C36_LoadAllTolerant ==
  /\ [](\A p \in Personas :
          /\ Has(LoadAll(dir)[p]) <=> dir[filePath(p)].kind = "json"
          /\ Has(LoadAll(dir)[p]) => LoadAll(dir)[p] = Unmarshal(dir[filePath(p)].doc))
  /\ [][/\ SaveDone =>
             /\ Marshal(LoadAll(dir')[saving.persona]) = Marshal(saving.snap)
             /\ \A q \in Personas \ {saving.persona} : LoadAll(dir')[q] = LoadAll(dir)[q]
        /\ \A p \in Personas :
             (dir'[filePath(p)] # dir[filePath(p)] /\ ~SaveDone) =>
               /\ LoadAll(dir')[p] = AbsentPersona
               /\ \A q \in Personas \ {p} : LoadAll(dir')[q] = LoadAll(dir)[q]
        /\ (\A p \in Personas : dir'[filePath(p)] = dir[filePath(p)]) => LoadAll(dir') = LoadAll(dir)
        /\ Booted => data' = LoadAll(dir)
       ]_vars

\* The store has started on a directory where p1.json is damaged and a
\* leftover p1.json.tmp lies beside it: it holds p2 as it was saved, the
\* number as a float64, and nothing of p1.
C36_Witness ==
  /\ up /\ ncrash = 1
  /\ dir[filePath("p1")].kind \in {"partial", "unreadable"}
  /\ dir[tempPath("p1")].kind = "json"
  /\ ~Has(data["p1"])
  /\ Get(data, "p2", "a1", "k1").val = "float64:7"

\* The store that one would build from the directory now holds the key of
\* the last call under persona p.
OnDisk(p) == Get(NewMemStore(LoadAll(dir)), p, lastCall.app, lastCall.key).err = Nil

\* C38: after a successful Move between two personas whose source was on disk
\* with the key, a store built from the directory, at whatever moment the
\* process stops, has the key under the source or under the destination.
C38_MoveSurvivesCrash ==
  (/\ up /\ lastCall.op = "Move" /\ lastCall.err = Nil
   /\ lastCall.persona # lastCall.dst
   /\ hist.persisted)
  => (OnDisk(lastCall.persona) \/ OnDisk(lastCall.dst))

\* C39: a Move whose source holds the key succeeds also when the destination
\* holds a value for it; the destination then holds the source's value, the
\* source, when it is another persona, holds the key no more, and every other
\* key of the store is as it was.
C39_MoveOverwrites ==
  [][(Called("Move") /\ Get(data, lastCall'.dst, lastCall'.app, lastCall'.key).err = Nil
        /\ OldValue # NoVal) =>
       LET c == lastCall'
       IN /\ c.err = Nil
          /\ Get(data', c.dst, c.app, c.key) = Result(OldValue, Nil)
          /\ c.persona # c.dst => Get(data', c.persona, c.app, c.key).err = ErrKeyNotFound
          /\ \A x \in Cells \ {<<c.persona, c.app, c.key>>, <<c.dst, c.app, c.key>>} :
               GetCell(data', x) = GetCell(data, x)
          /\ GetPersonas(data') = GetPersonas(data)
          /\ \A p \in Personas : GetApps(data', p) = GetApps(data, p)
    ]_vars

\* A Move has put the source's 7 where the destination held "v1", and another
\* key of the destination is still there.
C39_Witness ==
  /\ lastCall.op = "Move" /\ lastCall.err = Nil /\ lastCall.persona # lastCall.dst
  /\ hist.replaced = "v1"
  /\ Get(data, lastCall.dst, lastCall.app, lastCall.key).val = "int:7"
  /\ \E k \in Keys \ {lastCall.key} : Get(data, lastCall.dst, lastCall.app, k).err = Nil

====
